---- MODULE Spec2Model ----
(***************************************************************************)
(* Model of the benchmark orchestration core of effection-benchmarks:      *)
(* the `run` command (cli/commands/run.ts), the Result wrapper             *)
(* (cli/lib/result.ts), the workspace manager (cli/lib/workspace.ts), the  *)
(* runtime adapters (cli/lib/runtimes/*.ts) and the result schema          *)
(* (cli/lib/schema.ts); and of the harness process that an adapter starts  *)
(* (cli/harness/entry.ts, args.ts, measure.ts, cli/scenarios/mod.ts).      *)
(*                                                                         *)
(* Environment assumptions: data/json is writable (writeResult does not    *)
(* throw); the installed runtimes report a fixed version; the wall clock   *)
(* is read once per invocation of the command and strictly increases      *)
(* between invocations.                                                    *)
(***************************************************************************)
EXTENDS Integers, Sequences, FiniteSets, TLC

VARIABLES
    pc,           \* position of the run command
    runs,         \* number of invocations of the command so far
    clock,        \* wall clock: [day, ms]
    dirs,         \* workspace directories on disk: path -> directory content
    source,       \* the CLI's own source tree: the files of WORKSPACE_ITEMS
    files,        \* data/json: path -> result record
    args,         \* raw command-line arguments of the current invocation
    config,       \* parseResult.config
    ws,           \* locals of useWorkspace (dir, shouldCleanup, needsNpmInstall)
    idx,          \* index of the runtime in progress
    sidx,         \* index of the scenario in progress
    cur,          \* `results` of runForRuntime
    results,      \* `results` of runCommand: one Result per runtime
    status,       \* how runCommand ended: none / returned / raised / halted
    exitCode,     \* the number runCommand returned
    summary,      \* what the report printed
    adapterCalls, \* history: runtime indexes whose adapter has been invoked
    wsUsed,       \* history: workspace paths handed to runForRuntime
    writes,       \* history: records passed to writeResult in this invocation
    subprocs,     \* history: subprocesses started in this invocation
    install,      \* history: npm install of this invocation
    removal,      \* history: removal of the workspace directory
    prevWs,       \* history: the previous useWorkspace call
    replaced,     \* history: paths whose earlier content writeResult replaced
    inflight,     \* harness subprocesses started and not yet exited: <<runtime, scenario>>
    harnessExit,  \* history: the last harness subprocess exit and what invokeHarness made of it
    calls,        \* history: the runScenario calls of this invocation: <<runtime index, scenario>>
    hpc,          \* position of the harness process (cli/harness/entry.ts)
    argv,         \* the harness's argument vector
    hargs,        \* `args` of the harness: the parsed HarnessArgs
    out,          \* lines the harness printed on stdout
    hexit,        \* exit code of the harness process
    perfNow,      \* performance.now()
    meas,         \* locals of measure: loop, i, start, times (and history)
    live,         \* tasks spawned by the scenario that are alive: <<scope, n>>
    log,          \* history: the scenario calls made by measure
    spc,          \* position of a caller of the statistics functions
    samples,      \* `times` handed to calculateStats
    statsOut,     \* what calculateStats(samples) returned or threw
    shuffled,     \* a reordering of `samples`
    shuffledOut,  \* what calculateStats(shuffled) returned
    pct,          \* a call of percentile: [called, sorted, p, value]
    jpc,          \* position of a writer and reader of a result file
    doc,          \* the value handed to validateBenchmarkResult
    validated,    \* what validateBenchmarkResult(doc) returned or threw
    text,         \* the JSON text written for it
    reparsed,     \* JSON.parse of that text
    revalidated,  \* what validateBenchmarkResult(reparsed) returned or threw
    wcalls,       \* concurrent useWorkspace calls: call -> its locals and position
    cacheDirs,    \* the directories those calls share on disk: path -> content
    jsonDir,      \* the site server's data/json: the contents of its *.json files
    cacheStore,   \* the Cache API store "benchmarks-parquet-v1": key -> response
    tempFile,     \* .cache/benchmarks.parquet: the contents it was written from
    reqs,         \* requests to /api/benchmarks.parquet in progress: their locals
    bpc,          \* position of an adapter that starts a harness: built / started
    bopts,        \* the ScenarioOpts handed to buildHarnessArgs
    bargv,        \* what buildHarnessArgs returned
    started,      \* what the harness made of those arguments: args, error, exit
    dpc,          \* position of main(): idle / in a handler / returned / exited
    dargs,        \* Deno.args handed to dispatch
    dcall,        \* the handler dispatch called, its arguments, what it printed
    dresult       \* what dispatch returned or threw

runVars == <<pc, runs, clock, dirs, source, files, args, config, ws, idx, sidx, cur,
          results, status, exitCode, summary, adapterCalls, wsUsed, writes, subprocs,
          install, removal, prevWs, replaced, inflight, harnessExit, calls>>

hVars == <<hpc, argv, hargs, out, hexit, perfNow, meas, live, log>>

sVars == <<spc, samples, statsOut, shuffled, shuffledOut, pct>>

jVars == <<jpc, doc, validated, text, reparsed, revalidated>>

\* the variables of the components that the command and the harness, the
\* statistics callers and the result file reader do not touch
cVars == <<wcalls, cacheDirs>>

pVars == <<jsonDir, cacheStore, tempFile, reqs>>

bVars == <<bpc, bopts, bargv, started>>

dVars == <<dpc, dargs, dcall, dresult>>

auxVars == <<sVars, jVars, cVars, pVars, bVars, dVars>>
nonStats == <<runVars, hVars, jVars, cVars, pVars, bVars, dVars>>
nonJson == <<runVars, hVars, sVars, cVars, pVars, bVars, dVars>>
nonCalls == <<runVars, hVars, sVars, jVars, pVars, bVars, dVars>>
nonServer == <<runVars, hVars, sVars, jVars, cVars, bVars, dVars>>
nonBuild == <<runVars, hVars, sVars, jVars, cVars, pVars, dVars>>
nonDispatch == <<runVars, hVars, sVars, jVars, cVars, pVars, bVars>>

vars == <<runVars, hVars, sVars, jVars, cVars, pVars, bVars, dVars>>

(***************************************************************************)
(* Program constants                                                       *)
(***************************************************************************)
SCHEMA_VERSION == 1

RUNTIMES == <<"node", "deno", "bun">>

SCENARIOS == <<"effection.recursion", "effection.events", "rxjs.recursion",
               "rxjs.events", "effect.recursion", "effect.events",
               "co.recursion", "async-await.recursion",
               "add-event-listener.events">>

\* loadConfig(): the comparison-library defaults
loadConfig == [rxjs |-> "7.8.1", effect |-> "3.14.0", co |-> "4.6.0"]

(***************************************************************************)
(* Bounds                                                                  *)
(***************************************************************************)
MaxRuntimes == 2    \* longest --runtime list on a command line
MaxRuns == 2        \* successive invocations of the command (SpecRepeat)
MaxTasks == 2       \* child tasks one scenario call spawns (SpecHarness)
MaxLen == 3         \* longest sample vector handed to calculateStats (SpecStats)
MaxSample == 7      \* largest sample, in units of the clock's resolution (SpecStats)
MaxCalls == 2       \* useWorkspace calls in progress at once (SpecCalls)
MaxRequests == 2    \* requests the site server handles at once (SpecServer)

NoValue == "<none>"
NoCode == -1

Range(s) == {s[i] : i \in DOMAIN s}

SeqsUpTo(S, n) == UNION {[1..k -> S] : k \in 0..n}

RECURSIVE Flatten(_)
Flatten(ss) == IF ss = <<>> THEN <<>> ELSE Head(ss) \o Flatten(Tail(ss))

(***************************************************************************)
(* Argument parsing: the configliere spec of run.ts                        *)
(***************************************************************************)
RuntimeIdSchema(r) == r \in Range(RUNTIMES)

ReleaseOk(a) == a.release # NoValue /\ a.release # ""
RuntimeOk(a) == Len(a.runtime) >= 1 /\ \A i \in DOMAIN a.runtime : RuntimeIdSchema(a.runtime[i])
\* variant of RepeatOk: a bound that admits zero
RepeatOk_allowsZero(a) == a.repeat >= 0

RepeatOk(a) == a.repeat > 0
DepthOk(a) == a.depth > 0
WarmupOk(a) == a.warmup >= 0

configliereParse(a) ==
    [ok |-> ReleaseOk(a) /\ RuntimeOk(a) /\ RepeatOk(a) /\ DepthOk(a) /\ WarmupOk(a),
     config |-> a]

NoConfig == [release |-> NoValue, runtime |-> <<>>, repeat |-> 0, depth |-> 0,
             warmup |-> 0, cacheWorkspace |-> FALSE, failFast |-> FALSE]

(***************************************************************************)
(* Result wrapper: cli/lib/result.ts                                       *)
(***************************************************************************)
\* an operation's outcome: it returned `value` or threw `error`
Returned(v) == [threw |-> FALSE, value |-> v, error |-> ""]
Threw(e) == [threw |-> TRUE, value |-> <<>>, error |-> e]

\* variant of wrapResult: the failure does not carry the caller's context
wrapResult_noContext(context, outcome) ==
    IF outcome.threw
    THEN [ok |-> FALSE, value |-> <<>>, error |-> outcome.error, context |-> "unknown"]
    ELSE [ok |-> TRUE, value |-> outcome.value, error |-> "", context |-> ""]

wrapResult(context, outcome) ==
    IF outcome.threw
    THEN [ok |-> FALSE, value |-> <<>>, error |-> outcome.error, context |-> context]
    ELSE [ok |-> TRUE, value |-> outcome.value, error |-> "", context |-> ""]

isOk(r) == r.ok
isErr(r) == ~r.ok

successes(rs) == [i \in 1..Len(SelectSeq(rs, isOk)) |-> SelectSeq(rs, isOk)[i].value]

failures(rs) ==
    [i \in 1..Len(SelectSeq(rs, isErr)) |->
        [error |-> SelectSeq(rs, isErr)[i].error, context |-> SelectSeq(rs, isErr)[i].context]]

(***************************************************************************)
(* Result schema: cli/lib/schema.ts.  A results entry is modelled by its   *)
(* name and the set of well-formed fields it carries ("stats": finite      *)
(* non-negative statistics, "samples": a non-empty vector of non-negative  *)
(* samples).                                                               *)
(***************************************************************************)
BenchmarkParamsSchema(p) == p.repeat > 0 /\ p.warmup >= 0 /\ p.depth > 0

MetadataSchema(m) ==
    /\ m.releaseTag # ""
    /\ RuntimeIdSchema(m.runtime)
    /\ m.runtimeMajorVersion >= 0
    /\ m.scenario # ""
    /\ BenchmarkParamsSchema(m.benchmarkParams)

ResultEntrySchema(e) == e.name # "" /\ "stats" \in e.has

BenchmarkResultSchema(d) ==
    /\ d.schemaVersion >= 1
    /\ MetadataSchema(d.metadata)
    /\ Len(d.results) >= 1
    /\ \A i \in DOMAIN d.results : ResultEntrySchema(d.results[i])

\* zod's parse returns only the keys the schema declares
StripEntry(e) == [name |-> e.name, has |-> e.has \cap {"stats"}]

validateBenchmarkResult(d) ==
    IF BenchmarkResultSchema(d)
    THEN Returned([d EXCEPT !.results = [i \in DOMAIN d.results |-> StripEntry(d.results[i])]])
    ELSE Threw("validation")

(***************************************************************************)
(* A result record in full and its JSON text.  A number-typed field holds  *)
(* a JavaScript value: a finite number (sign and magnitude in tenths), NaN,*)
(* Infinity, null or undefined.                                            *)
(***************************************************************************)
Finite(neg, tenths) == [kind |-> "finite", neg |-> neg, val |-> tenths]
NotANumber == [kind |-> "nan", neg |-> FALSE, val |-> 0]
Infinity == [kind |-> "inf", neg |-> FALSE, val |-> 0]
Null == [kind |-> "null", neg |-> FALSE, val |-> 0]
Undefined == [kind |-> "undefined", neg |-> FALSE, val |-> 0]

StatFields == {"avgTime", "minTime", "maxTime", "stdDev", "p50", "p95", "p99"}

\* z.number() takes a number that is not NaN; .finite(), .int(),
\* .nonnegative() (x >= 0, true of -0) and .positive() (x > 0)
ZNumber(x) == x.kind \in {"finite", "inf"}
ZFinite(x) == x.kind = "finite"
ZInt(x) == x.kind = "finite" /\ x.val % 10 = 0
ZNonnegative(x) == x.val = 0 \/ ~x.neg
ZPositive(x) == ~x.neg /\ (x.val > 0 \/ x.kind = "inf")

BenchmarkStatsSchema(st) ==
    \A f \in StatFields : ZNumber(st[f]) /\ ZNonnegative(st[f]) /\ ZFinite(st[f])

\* the integer a z.number().int() field holds, -1 for a value it rejects
IntegerOf(x) ==
    IF ZNumber(x) /\ ZInt(x) /\ ZNonnegative(x) THEN x.val \div 10 ELSE -1

\* the record in full seen as the schema definitions above see it
SchemaView(d) ==
    [schemaVersion |-> IntegerOf(d.schemaVersion),
     metadata |-> [releaseTag |-> d.metadata.releaseTag,
                   runtime |-> d.metadata.runtime,
                   runtimeMajorVersion |-> IntegerOf(d.metadata.runtimeMajorVersion),
                   timestamp |-> d.metadata.timestamp,
                   runner |-> d.metadata.runner,
                   scenario |-> d.metadata.scenario,
                   benchmarkParams |->
                       [repeat |-> IntegerOf(d.metadata.benchmarkParams.repeat),
                        warmup |-> IntegerOf(d.metadata.benchmarkParams.warmup),
                        depth |-> IntegerOf(d.metadata.benchmarkParams.depth)]],
     results |-> [i \in DOMAIN d.results |->
                    [name |-> d.results[i].name,
                     has |-> IF BenchmarkStatsSchema(d.results[i].stats)
                             THEN {"stats"} ELSE {}]]]

\* BenchmarkResultSchema.parse on a record in full: the declared keys of an
\* accepted record, an undeclared key stripped
BenchmarkResultSchemaParse(d) ==
    IF validateBenchmarkResult(SchemaView(d)).threw
    THEN Threw("validation")
    ELSE Returned([d EXCEPT !.extra = FALSE])

\* variant of JsonStringifyNumber: a number is printed without its fraction
JsonStringifyNumber_truncates(x) ==
    IF x.kind = "finite"
    THEN [tok |-> "number", neg |-> x.neg /\ x.val # 0, val |-> (x.val \div 10) * 10]
    ELSE IF x.kind = "undefined" THEN [tok |-> "absent", neg |-> FALSE, val |-> 0]
    ELSE [tok |-> "null", neg |-> FALSE, val |-> 0]

\* JSON.stringify of a number-typed property: the shortest decimal that reads
\* back as the same number, "0" for -0, null for NaN and Infinity; a property
\* whose value is undefined is left out
JsonStringifyNumber(x) ==
    IF x.kind = "finite"
    THEN [tok |-> "number", neg |-> x.neg /\ x.val # 0, val |-> x.val]
    ELSE IF x.kind = "undefined" THEN [tok |-> "absent", neg |-> FALSE, val |-> 0]
    ELSE [tok |-> "null", neg |-> FALSE, val |-> 0]

JsonParseNumber(t) ==
    IF t.tok = "number" THEN Finite(t.neg, t.val)
    ELSE IF t.tok = "null" THEN Null
    ELSE Undefined

\* a string is written quoted and escaped, and read back unquoted
JsonStringifyString(str) == [tok |-> "string", chars |-> str]
JsonParseString(t) == t.chars

JsonStringify(d) ==
    [schemaVersion |-> JsonStringifyNumber(d.schemaVersion),
     metadata |-> [releaseTag |-> JsonStringifyString(d.metadata.releaseTag),
                   runtime |-> JsonStringifyString(d.metadata.runtime),
                   runtimeMajorVersion |-> JsonStringifyNumber(d.metadata.runtimeMajorVersion),
                   timestamp |-> JsonStringifyString(d.metadata.timestamp),
                   runner |-> [os |-> JsonStringifyString(d.metadata.runner.os),
                               arch |-> JsonStringifyString(d.metadata.runner.arch)],
                   scenario |-> JsonStringifyString(d.metadata.scenario),
                   benchmarkParams |->
                       [repeat |-> JsonStringifyNumber(d.metadata.benchmarkParams.repeat),
                        warmup |-> JsonStringifyNumber(d.metadata.benchmarkParams.warmup),
                        depth |-> JsonStringifyNumber(d.metadata.benchmarkParams.depth)]],
     results |-> [i \in DOMAIN d.results |->
                    [name |-> JsonStringifyString(d.results[i].name),
                     stats |-> [f \in StatFields |->
                                  JsonStringifyNumber(d.results[i].stats[f])]]],
     extra |-> d.extra]

JsonParse(t) ==
    [schemaVersion |-> JsonParseNumber(t.schemaVersion),
     metadata |-> [releaseTag |-> JsonParseString(t.metadata.releaseTag),
                   runtime |-> JsonParseString(t.metadata.runtime),
                   runtimeMajorVersion |-> JsonParseNumber(t.metadata.runtimeMajorVersion),
                   timestamp |-> JsonParseString(t.metadata.timestamp),
                   runner |-> [os |-> JsonParseString(t.metadata.runner.os),
                               arch |-> JsonParseString(t.metadata.runner.arch)],
                   scenario |-> JsonParseString(t.metadata.scenario),
                   benchmarkParams |->
                       [repeat |-> JsonParseNumber(t.metadata.benchmarkParams.repeat),
                        warmup |-> JsonParseNumber(t.metadata.benchmarkParams.warmup),
                        depth |-> JsonParseNumber(t.metadata.benchmarkParams.depth)]],
     results |-> [i \in DOMAIN t.results |->
                    [name |-> JsonParseString(t.results[i].name),
                     stats |-> [f \in StatFields |-> JsonParseNumber(t.results[i].stats[f])]]],
     extra |-> t.extra]

(***************************************************************************)
(* Runtime adapters: cli/lib/runtimes                                      *)
(***************************************************************************)
\* major version of the runtime installed on the host
parseMajorVersion(rt) ==
    CASE rt = "node" -> 22
      [] rt = "deno" -> 2
      [] OTHER -> 1

\* the deno adapter (deno.ts) returns a fixed record with `stats`; node (node.ts)
\* and bun run the harness.  HarnessOutputSchema keeps `samples` only and
\* ResultEntrySchema requires `stats`, so in this revision of the source a record
\* built from harness output never passes validateBenchmarkResult.
UsesHarness(rt) == rt \in {"node", "bun"}

ScenarioOpts(cfg, scenario) ==
    [releaseTag |-> cfg.release, scenario |-> scenario, repeat |-> cfg.repeat,
     warmup |-> cfg.warmup, depth |-> cfg.depth]

BuildResult(rt, opts, entries, now) ==
    [schemaVersion |-> SCHEMA_VERSION,
     metadata |-> [releaseTag |-> opts.releaseTag,
                   runtime |-> rt,
                   runtimeMajorVersion |-> parseMajorVersion(rt),
                   timestamp |-> now,
                   runner |-> [os |-> "linux", arch |-> "x86_64"],
                   scenario |-> opts.scenario,
                   benchmarkParams |-> [repeat |-> opts.repeat, warmup |-> opts.warmup,
                                        depth |-> opts.depth]],
     results |-> entries]

\* a line of the harness's stdout: does it begin with "{", does it parse as
\* JSON, is it an object with a `results` array, and the entries of that array
TextLine == [brace |-> FALSE, json |-> FALSE, hasResults |-> FALSE, results |-> <<>>]
BadJsonLine == [brace |-> TRUE, json |-> FALSE, hasResults |-> FALSE, results |-> <<>>]
OtherJsonLine == [brace |-> TRUE, json |-> TRUE, hasResults |-> FALSE, results |-> <<>>]
ResultsLine(fields) ==
    [brace |-> TRUE, json |-> TRUE, hasResults |-> TRUE,
     results |-> <<[name |-> "effection", has |-> fields]>>]

Stdouts ==
    { <<>>, <<TextLine>>, <<BadJsonLine>>, <<OtherJsonLine>>,
      <<ResultsLine({"stats"})>>, <<ResultsLine({"samples"})>>,
      <<TextLine, ResultsLine({"samples"})>>,
      <<ResultsLine({"stats", "samples"})>>,
      <<BadJsonLine, ResultsLine({"samples"})>>,
      <<OtherJsonLine, ResultsLine({"stats", "samples"})>> }

FirstBrace(lines) ==
    IF \E i \in DOMAIN lines : lines[i].brace
    THEN CHOOSE i \in DOMAIN lines : lines[i].brace /\ \A j \in 1..(i-1) : ~lines[j].brace
    ELSE 0

HarnessOutputSchema(line) ==
    /\ line.hasResults
    /\ Len(line.results) >= 1
    /\ \A i \in DOMAIN line.results : "samples" \in line.results[i].has

\* variant of parseHarnessOutput: a line that does not parse or does not match
\* is skipped and the last line beginning with "{" is taken
parseHarnessOutput_fallsBack(stdout) ==
    IF FirstBrace(stdout) = 0 THEN Threw("nojson")
    ELSE LET last == CHOOSE i \in DOMAIN stdout :
                        stdout[i].brace /\ \A j \in (i+1)..Len(stdout) : ~stdout[j].brace
             jsonLine == stdout[last] IN
         IF ~jsonLine.json THEN Threw("badjson")
         ELSE IF ~HarnessOutputSchema(jsonLine) THEN Threw("format")
         ELSE Returned([i \in DOMAIN jsonLine.results |->
                          [name |-> jsonLine.results[i].name,
                           has |-> jsonLine.results[i].has \cap {"samples"}]])

parseHarnessOutput(stdout) ==
    IF FirstBrace(stdout) = 0 THEN Threw("nojson")
    ELSE LET jsonLine == stdout[FirstBrace(stdout)] IN
         IF ~jsonLine.json THEN Threw("badjson")
         ELSE IF ~HarnessOutputSchema(jsonLine) THEN Threw("format")
         ELSE Returned([i \in DOMAIN jsonLine.results |->
                          [name |-> jsonLine.results[i].name,
                           has |-> jsonLine.results[i].has \cap {"samples"}]])

\* variant of invokeHarness: the exit code is not looked at
invokeHarness_ignoresExit(rt, opts, code, stdout, now) ==
    LET harnessOutput == parseHarnessOutput(stdout) IN
    IF harnessOutput.threw THEN harnessOutput
    ELSE validateBenchmarkResult(BuildResult(rt, opts, harnessOutput.value, now))

\* variant of invokeHarness: the record is returned without validation
invokeHarness_noValidate(rt, opts, code, stdout, now) ==
    IF code # 0 THEN Threw("exec")
    ELSE LET harnessOutput == parseHarnessOutput(stdout) IN
         IF harnessOutput.threw THEN harnessOutput
         ELSE Returned(BuildResult(rt, opts, harnessOutput.value, now))

invokeHarness(rt, opts, code, stdout, now) ==
    IF code # 0 THEN Threw("exec")
    ELSE LET harnessOutput == parseHarnessOutput(stdout) IN
         IF harnessOutput.threw THEN harnessOutput
         ELSE validateBenchmarkResult(BuildResult(rt, opts, harnessOutput.value, now))

\* the options a harness adapter hands to invokeHarness: command, runtime id
\* and the scenario options; neither adapter sets cwd (<<>> is undefined)
HarnessInvokeOpts(rt, opts) ==
    [command |-> rt, runtimeId |-> rt, scenarioOpts |-> opts, cwd |-> <<>>]

\* the directory the command line tool itself was started in
ProcessCwd == <<"cwd">>

\* exec(command, {cwd}): the child runs in cwd, or in the parent's working
\* directory when cwd is undefined
ExecCwd(cwd) == IF cwd = <<>> THEN ProcessCwd ELSE cwd

mockRunScenario(rt, opts, now) ==
    validateBenchmarkResult(
        BuildResult(rt, opts, <<[name |-> "effection", has |-> {"stats"}]>>, now))

(***************************************************************************)
(* Result store: writeResult of run.ts                                     *)
(***************************************************************************)
DateOf(timestamp) == timestamp.day

\* variant of ResultPath: the release tag is left out of the file name
ResultPath_noRelease(result) ==
    <<DateOf(result.metadata.timestamp), result.metadata.runtime,
      result.metadata.runtimeMajorVersion, result.metadata.scenario>>

ResultPath(result) ==
    <<DateOf(result.metadata.timestamp), result.metadata.releaseTag,
      result.metadata.runtime, result.metadata.runtimeMajorVersion,
      result.metadata.scenario>>

writeResult(fs, result) ==
    [p \in DOMAIN fs \cup {ResultPath(result)} |->
        IF p = ResultPath(result) THEN result ELSE fs[p]]

RECURSIVE writeAll(_, _)
writeAll(fs, rs) == IF rs = <<>> THEN fs ELSE writeAll(writeResult(fs, Head(rs)), Tail(rs))

\* variant of exitCodeOf: failures do not change the exit code
exitCodeOf_alwaysZero(failedResults) == 0

exitCodeOf(failedResults) == IF Len(failedResults) > 0 THEN 1 ELSE 0

(***************************************************************************)
(* Workspace manager: cli/lib/workspace.ts                                 *)
(***************************************************************************)
WorkspaceConfig(cfg) ==
    [effectionVersion |-> cfg.release, comparisonVersions |-> loadConfig,
     useCache |-> cfg.cacheWorkspace]

\* the first 16 hex digits of SHA-256 over the JSON text of the four versions:
\* modelled as an injective encoding of the text that is hashed
computeCacheKey(wc) ==
    <<"sha256", wc.effectionVersion, wc.comparisonVersions.rxjs,
      wc.comparisonVersions.effect, wc.comparisonVersions.co>>

CachePath(key) == <<"cache", key>>
TempPath(n) == <<"tmp", n>>

EmptyDir == [packageJson |-> NoValue, nodeModules |-> "absent", cli |-> {}]

\* what data/json can hold: each value stands for one set of *.json files
DirContents == {"d0", "d1"}

\* the locals of a request that has not arrived
NoResponse == [status |-> 0, from |-> NoValue]
IdleRequest ==
    [pc |-> "r_idle", key |-> <<>>, atRequest |-> NoValue, hit |-> FALSE,
     invoked |-> FALSE, table |-> NoValue, bytes |-> NoValue, response |-> NoResponse,
     afterError |-> FALSE]

\* the locals of a useWorkspace call that has not started
IdleCall ==
    [pc |-> "c_idle", useCache |-> FALSE, dir |-> <<>>, key |-> <<>>,
     shouldCleanup |-> FALSE, needsNpmInstall |-> FALSE, outcome |-> "none"]

\* a tree of files is a set of <<path, content>>.  copyDir creates or
\* overwrites every file of src in dest and removes nothing from dest
copyDir_keepsExisting(src, dest) == IF dest # {} THEN dest ELSE src

copyDir(src, dest) ==
    {f \in dest : \A g \in src : g[1] # f[1]} \cup src

\* every item of WORKSPACE_ITEMS is copied to the same path under cli/
copyWorkspaceFiles(sourceDir, workspaceCli) == copyDir(sourceDir, workspaceCli)

\* variant of hasNodeModules: the marker is never found
hasNodeModules_never(d, dir) == FALSE

hasNodeModules(d, dir) == d[dir].nodeModules # "absent"

\* variant of installFails: the exit code is not looked at
installFails_never(code) == FALSE

\* npm install throws on a non-zero exit code
installFails(code) == code # 0

\* what npm leaves in node_modules: everything on exit 0; on a failure or an
\* interruption either what was there or a partial tree
AfterInstall(before, code, leaves) ==
    IF code = 0 THEN "complete"
    ELSE IF leaves /\ before = "absent" THEN "partial" ELSE before

\* variant of cleanup: a removal error is not caught
cleanup_rethrows(shouldCleanup, rmOk) ==
    [attempted |-> shouldCleanup, removed |-> shouldCleanup /\ rmOk,
     raised |-> shouldCleanup /\ ~rmOk]

\* the finally block: [attempted, removed, raised]
cleanup(shouldCleanup, rmOk) ==
    [attempted |-> shouldCleanup, removed |-> shouldCleanup /\ rmOk, raised |-> FALSE]

NoWs == [entered |-> FALSE, enters |-> 0, useCache |-> FALSE, key |-> <<>>, dir |-> <<>>,
         shouldCleanup |-> FALSE, needsNpmInstall |-> FALSE, provided |-> FALSE,
         dirExisted |-> FALSE]

NoRemoval == [attempted |-> FALSE, removed |-> FALSE, raised |-> FALSE, failed |-> FALSE]

(***************************************************************************)
(* Benchmark harness: cli/harness/args.ts, cli/scenarios/mod.ts,           *)
(* cli/lib/stats.ts.  A JavaScript number is [nan, val]; parseInt's        *)
(* argument is given by its characters.                                    *)
(***************************************************************************)
Num(n) == [nan |-> FALSE, val |-> n]
NaN == [nan |-> TRUE, val |-> 0]

\* JavaScript comparisons: false when either side is NaN
JsLt(a, b) == ~a.nan /\ ~b.nan /\ a.val < b.val
JsLe(a, b) == ~a.nan /\ ~b.nan /\ a.val <= b.val

\* the characters of the strings that appear as option values
Chars ==
    [t \in {"0", "1", "2", "3", "10", "100", "-1", "1.5", "abc", "1e+21"} |->
        CASE t = "0" -> <<"0">>
          [] t = "1" -> <<"1">>
          [] t = "2" -> <<"2">>
          [] t = "3" -> <<"3">>
          [] t = "10" -> <<"1", "0">>
          [] t = "100" -> <<"1", "0", "0">>
          [] t = "-1" -> <<"-", "1">>
          [] t = "1.5" -> <<"1", ".", "5">>
          [] t = "abc" -> <<"a", "b", "c">>
          [] t = "1e+21" -> <<"1", "e", "+", "2", "1">>]

Digit ==
    [c \in {"0", "1", "2", "3", "4", "5", "6", "7", "8", "9"} |->
        CASE c = "0" -> 0 [] c = "1" -> 1 [] c = "2" -> 2 [] c = "3" -> 3
          [] c = "4" -> 4 [] c = "5" -> 5 [] c = "6" -> 6 [] c = "7" -> 7
          [] c = "8" -> 8 [] c = "9" -> 9]

\* the value of the longest prefix of digits, after `acc`
RECURSIVE DigitsValue(_, _)
DigitsValue(cs, acc) ==
    IF cs = <<>> \/ Head(cs) \notin DOMAIN Digit THEN acc
    ELSE DigitsValue(Tail(cs), acc * 10 + Digit[Head(cs)])

\* parseInt(str, 10): an optional sign, then the longest prefix of digits;
\* NaN when there is no digit
parseInt(str) ==
    LET cs == Chars[str]
        neg == cs # <<>> /\ Head(cs) = "-"
        body == IF neg THEN Tail(cs) ELSE cs
    IN IF body = <<>> \/ Head(body) \notin DOMAIN Digit THEN NaN
       ELSE Num((IF neg THEN -1 ELSE 1) * DigitsValue(body, 0))

HarnessArgsDefaults ==
    [scenario |-> "", depth |-> Num(100), repeat |-> Num(10), warmup |-> Num(3),
     json |-> FALSE]

\* `next || dflt`: the default when there is no next argument or it is empty
OrDefault(av, i, dflt) == IF i + 1 > Len(av) \/ av[i + 1] = "" THEN dflt ELSE av[i + 1]

\* the for loop of parseHarnessArgs, from index i
RECURSIVE ParseFrom(_, _, _)
ParseFrom(av, i, result) ==
    IF i > Len(av) THEN result
    ELSE CASE av[i] = "--scenario" ->
                ParseFrom(av, i + 2, [result EXCEPT !.scenario = OrDefault(av, i, "")])
           [] av[i] = "--depth" ->
                ParseFrom(av, i + 2, [result EXCEPT !.depth = parseInt(OrDefault(av, i, "100"))])
           [] av[i] = "--repeat" ->
                ParseFrom(av, i + 2, [result EXCEPT !.repeat = parseInt(OrDefault(av, i, "10"))])
           [] av[i] = "--warmup" ->
                ParseFrom(av, i + 2, [result EXCEPT !.warmup = parseInt(OrDefault(av, i, "3"))])
           [] av[i] = "--json" ->
                ParseFrom(av, i + 1, [result EXCEPT !.json = TRUE])
           [] OTHER -> ParseFrom(av, i + 1, result)

parseHarnessArgs(av) == ParseFrom(av, 1, HarnessArgsDefaults)

\* the error message, or NoValue for null
validateHarnessArgs(a) ==
    IF a.scenario = "" THEN "Missing required --scenario argument"
    ELSE IF JsLe(a.depth, Num(0)) THEN "--depth must be positive"
    ELSE IF JsLe(a.repeat, Num(0)) THEN "--repeat must be positive"
    ELSE IF JsLt(a.warmup, Num(0)) THEN "--warmup cannot be negative"
    ELSE NoValue

\* the scenario registry of cli/scenarios/mod.ts: name -> library
scenarios ==
    [n \in {"effection.recursion", "effection.events", "effection-inline.recursion",
            "async-await.recursion", "rxjs.recursion", "rxjs.events", "co.recursion",
            "effect.recursion", "effect.events", "add-event-listener.events"} |->
        CASE n \in {"effection.recursion", "effection.events"} -> "effection"
          [] n = "effection-inline.recursion" -> "effection-inline"
          [] n = "async-await.recursion" -> "async-await"
          [] n \in {"rxjs.recursion", "rxjs.events"} -> "rxjs"
          [] n = "co.recursion" -> "co"
          [] n \in {"effect.recursion", "effect.events"} -> "effect"
          [] n = "add-event-listener.events" -> "add-event-listener"]

\* property names every object literal inherits from Object.prototype
ObjectPrototypeKeys == {"constructor", "toString", "valueOf", "hasOwnProperty"}

\* variant of getScenario: an unregistered name gets the first scenario
getScenario_fallsBack(name) ==
    IF name \in DOMAIN scenarios
    THEN [found |-> TRUE, run |-> TRUE, library |-> scenarios[name]]
    ELSE [found |-> TRUE, run |-> TRUE, library |-> "effection"]

\* variant of getScenario: a registry that holds the effection scenarios only
getScenario_effectionOnly(name) ==
    IF name \in {"effection.recursion", "effection.events"}
    THEN [found |-> TRUE, run |-> TRUE, library |-> scenarios[name]]
    ELSE [found |-> FALSE, run |-> FALSE, library |-> NoValue]

\* scenarios[name]: the registered scenario, an inherited property (truthy,
\* without `run`), or undefined
getScenario(name) ==
    IF name \in DOMAIN scenarios
    THEN [found |-> TRUE, run |-> TRUE, library |-> scenarios[name]]
    ELSE IF name \in ObjectPrototypeKeys
         THEN [found |-> TRUE, run |-> FALSE, library |-> NoValue]
         ELSE [found |-> FALSE, run |-> FALSE, library |-> NoValue]

\* A JavaScript number is an IEEE 754 binary floating-point value: every
\* arithmetic result is rounded to the nearest representable value, ties to
\* even.  The format is scaled down: MantissaBits significant bits (binary64
\* has 53) and least exponent 0, so the representable values are the integers
\* m * 2^k with m < 2^MantissaBits, in units of the clock's resolution.
MantissaBits == 3

RECURSIVE Pow2(_)
Pow2(k) == IF k = 0 THEN 1 ELSE 2 * Pow2(k - 1)

RECURSIVE BitLen(_)
BitLen(x) == IF x = 0 THEN 0 ELSE 1 + BitLen(x \div 2)

\* the representable value nearest to num / den (num >= 0, den > 0)
RoundRatio(num, den) ==
    LET q == num \div den
        k == IF BitLen(q) > MantissaBits THEN BitLen(q) - MantissaBits ELSE 0
        unit == den * Pow2(k)
        m == num \div unit
        r == num % unit
    IN IF 2 * r > unit \/ (2 * r = unit /\ m % 2 = 1)
       THEN (m + 1) * Pow2(k)
       ELSE m * Pow2(k)

Fl(x) == IF x < 0 THEN 0 - RoundRatio(0 - x, 1) ELSE RoundRatio(x, 1)

\* a + b, a - b, a * b, a / b and Math.sqrt(v) on numbers
NumAdd(a, b) == Fl(a + b)
NumSub(a, b) == Fl(a - b)
NumMul(a, b) == Fl(a * b)
NumDiv(a, b) == IF a < 0 THEN 0 - RoundRatio(0 - a, b) ELSE RoundRatio(a, b)
NumSqrt(v) ==
    LET s == CHOOSE r \in 0..v : r * r <= v /\ (r + 1) * (r + 1) > v
        k == IF BitLen(s) > MantissaBits THEN BitLen(s) - MantissaBits ELSE 0
        m == s \div Pow2(k)
        lo == m * Pow2(k)
        hi == (m + 1) * Pow2(k)
    IN IF 4 * v > (lo + hi) * (lo + hi) \/ (4 * v = (lo + hi) * (lo + hi) /\ m % 2 = 1)
       THEN hi
       ELSE lo

\* times.reduce((a, b) => a + b, 0): a left fold in the order of `times`
RECURSIVE Sum(_, _)
Sum(ts, acc) == IF ts = <<>> THEN acc ELSE Sum(Tail(ts), NumAdd(acc, Head(ts)))

\* times.reduce((acc, t) => acc + (t - avg) ** 2, 0)
RECURSIVE SumSquares(_, _, _)
SumSquares(ts, avg, acc) ==
    IF ts = <<>> THEN acc
    ELSE SumSquares(Tail(ts), avg,
                    NumAdd(acc, NumMul(NumSub(Head(ts), avg), NumSub(Head(ts), avg))))

\* variant of percentile: the rank is rounded down, not up
percentile_floor(sorted, p) ==
    LET index == ((p * Len(sorted)) \div 100) - 1
    IN sorted[(IF index > 0 THEN index ELSE 0) + 1]

\* percentile(sorted, p): index = ceil(p / 100 * length) - 1, at least 0.
\* For the lengths and percentiles used here the rounded product p / 100 *
\* length has the same ceiling as the exact one.
percentile(sorted, p) ==
    LET index == ((p * Len(sorted) + 99) \div 100) - 1
    IN sorted[(IF index > 0 THEN index ELSE 0) + 1]

\* variant of calculateStats: no sample gives all-zero statistics
calculateStats_emptyIsZero(times) ==
    Returned([reps |-> Len(times), times |-> times, avgTime |-> 0, minTime |-> 0,
              maxTime |-> 0, stdDev |-> 0, p50 |-> 0, p95 |-> 0, p99 |-> 0])

calculateStats(times) ==
    IF Len(times) = 0 THEN Threw("Cannot calculate stats from empty array")
    ELSE LET sorted == SortSeq(times, LAMBDA a, b : a < b)
             sum == Sum(times, 0)
             avg == NumDiv(sum, Len(times))
             variance == NumDiv(SumSquares(times, avg, 0), Len(times))
         IN Returned([reps |-> Len(times),
                      times |-> times,
                      avgTime |-> avg,
                      minTime |-> sorted[1],
                      maxTime |-> sorted[Len(sorted)],
                      stdDev |-> NumSqrt(variance),
                      p50 |-> percentile(sorted, 50),
                      p95 |-> percentile(sorted, 95),
                      p99 |-> percentile(sorted, 99)])

toStatsOnly(result) ==
    [avgTime |-> result.avgTime, minTime |-> result.minTime, maxTime |-> result.maxTime,
     stdDev |-> result.stdDev, p50 |-> result.p50, p95 |-> result.p95, p99 |-> result.p99]

\* the line console.log(JSON.stringify({results: [{name, stats}]})) prints
JsonOutput(library) ==
    [brace |-> TRUE, json |-> TRUE, hasResults |-> TRUE,
     results |-> <<[name |-> library, has |-> {"stats"}]>>]

\* the ten lines printed without --json
TextOutput == [i \in 1..10 |-> TextLine]

\* variant of WarmupLoop: one warmup run too many
WarmupLoop_offByOne(i, opts) == JsLe(Num(i), opts.warmup)

\* measure's loop conditions
WarmupLoop(i, opts) == JsLt(Num(i), opts.warmup)
MeasuredLoop(i, opts) == JsLt(Num(i), opts.repeat)

\* variant of scoped: the scenario is called in measure's own scope, so its
\* children outlive the call
scoped_noScope(tasks, scope) == tasks

\* scoped(() => scenarioFn(depth)): when the operation ends, the tasks spawned
\* in its scope are halted and have finished before scoped returns
scoped(tasks, scope) == {t \in tasks : t[1] # scope}

NoMeasure ==
    [loop |-> "none", i |-> 0, start |-> 0, times |-> <<>>, scope |-> 0, spawned |-> 0,
     halted |-> 0, durations |-> <<>>, statsOf |-> <<>>, returned |-> FALSE]

Seg(flag, value) == IF value = NoValue THEN <<>> ELSE <<flag, value>>

\* argument vectors of the harness: --repeat with a value, each other option
\* absent or with a value, and vectors that end with an option's name (the
\* second one runs with the default --repeat)
HarnessArgvs ==
    { Seg("--scenario", s) \o Seg("--repeat", r) \o Seg("--warmup", w) \o Seg("--depth", d) \o j :
        s \in {NoValue, "effection.recursion", "unknown.scenario", "constructor"},
        r \in {"2", "0", "abc", "1.5"},
        w \in {NoValue, "1", "0", "-1", "abc"},
        d \in {NoValue, "3", "0", "abc"},
        j \in {<<>>, <<"--json">>} }
    \cup { <<"--scenario">>, <<"--json", "--scenario", "rxjs.events", "--warmup", "0", "--repeat">> }

(***************************************************************************)
(* Inputs                                                                  *)
(***************************************************************************)
Releases == {"4.0.0", "4.1.0"}

ArgsOf(release, runtime, repeat, depth, warmup, cache, ff) ==
    [release |-> release, runtime |-> runtime, repeat |-> repeat, depth |-> depth,
     warmup |-> warmup, cacheWorkspace |-> cache, failFast |-> ff]

\* the source tree at checkout, and after an edit that changes the harness and
\* the registry and deletes a scenario file
SourceAtCheckout ==
    { <<"harness/entry.ts", 1>>, <<"scenarios/mod.ts", 1>>, <<"scenarios/co.recursion.ts", 1>> }

SourceTrees ==
    { SourceAtCheckout, { <<"harness/entry.ts", 2>>, <<"scenarios/mod.ts", 2>> } }

\* sample values: the representable numbers up to MaxSample; sample vectors,
\* the empty one included; ascending vectors; reorderings of n elements
SampleValues == {x \in 0..MaxSample : Fl(x) = x}

SampleVectors == SeqsUpTo(SampleValues, MaxLen)

SortedVectors ==
    {v \in SampleVectors : Len(v) >= 1 /\ \A i \in 1..(Len(v) - 1) : v[i] <= v[i + 1]}

Reorderings(n) == {f \in [1..n -> 1..n] : \A i, j \in 1..n : f[i] = f[j] => i = j}

NoPercentile == [called |-> FALSE, sorted |-> <<>>, p |-> 0, value |-> 0]

\* records in full handed to validateBenchmarkResult: the mock statistics of
\* the deno adapter with avgTime, warmup, the runtime's major version and the
\* entry's name taken from values the schema accepts and values it rejects,
\* with or without a key the schema does not declare
MockStats ==
    [f \in StatFields |->
        CASE f = "avgTime" -> Finite(FALSE, 98)
          [] f = "minTime" -> Finite(FALSE, 85)
          [] f = "maxTime" -> Finite(FALSE, 112)
          [] f = "stdDev" -> Finite(FALSE, 9)
          [] f = "p50" -> Finite(FALSE, 95)
          [] f = "p95" -> Finite(FALSE, 108)
          [] f = "p99" -> Finite(FALSE, 110)]

DocOf(avgTime, warmup, major, name, extra) ==
    [schemaVersion |-> Finite(FALSE, 10 * SCHEMA_VERSION),
     metadata |-> [releaseTag |-> "4.0.0",
                   runtime |-> "deno",
                   runtimeMajorVersion |-> major,
                   timestamp |-> "2026-01-01T00:00:00.000Z",
                   runner |-> [os |-> "linux", arch |-> "x86_64"],
                   scenario |-> "effection.recursion",
                   benchmarkParams |-> [repeat |-> Finite(FALSE, 20), warmup |-> warmup,
                                        depth |-> Finite(FALSE, 30)]],
     results |-> <<[name |-> name, stats |-> [MockStats EXCEPT !["avgTime"] = avgTime]]>>,
     extra |-> extra]

JsonDocs ==
    { DocOf(avgTime, warmup, major, name, extra) :
        avgTime \in {Finite(FALSE, 0), Finite(TRUE, 0), Finite(FALSE, 98), Finite(TRUE, 98),
                     NotANumber, Infinity, Undefined},
        warmup \in {Finite(FALSE, 0), Finite(TRUE, 0), Finite(FALSE, 10), Finite(FALSE, 5),
                    NotANumber},
        major \in {Finite(TRUE, 0), Finite(FALSE, 20), Infinity},
        name \in {"", "effection"},
        extra \in BOOLEAN }

\* command lines of a single invocation: valid and invalid ones
RunArgs ==
    { ArgsOf(rel, rts, rep, dep, wup, cache, ff) :
        rel \in {NoValue, "4.0.0"},
        rts \in SeqsUpTo(Range(RUNTIMES) \cup {"python"}, MaxRuntimes),
        rep \in {0, 2}, dep \in {0, 3}, wup \in {-1, 0},
        cache \in BOOLEAN, ff \in BOOLEAN }

\* command lines of an invocation that is left to run to its end: a rejected
\* one, and valid ones for the mock adapter alone and followed by a harness one
LiveArgs ==
    { ArgsOf(rel, rts, 2, 3, 0, cache, FALSE) :
        rel \in {NoValue, "4.0.0"}, rts \in {<<"deno">>, <<"deno", "node">>},
        cache \in BOOLEAN }

\* command lines of successive invocations: valid ones, with --cache-workspace
RepeatArgs ==
    { ArgsOf(rel, rts, 2, 3, 0, TRUE, FALSE) :
        rel \in Releases, rts \in {<<"deno">>, <<"node">>} }

(***************************************************************************)
(* State after construction: nothing has run, nothing is on disk           *)
(***************************************************************************)
NoSummary == [printed |-> FALSE, written |-> 0, failed |-> <<>>]
NoInstall == [ran |-> FALSE, count |-> 0, finished |-> FALSE, code |-> NoCode]
NoExit == [seen |-> FALSE, idx |-> 0, sidx |-> 0, cwd |-> <<>>, code |-> NoCode,
           stdout |-> <<>>, parsed |-> <<>>, threw |-> FALSE, error |-> ""]
NoPrev == [called |-> FALSE, useCache |-> FALSE, key |-> <<>>, dir |-> <<>>,
           installRan |-> FALSE, installCode |-> NoCode, provided |-> FALSE]

Init ==
    /\ pc = "idle"
    /\ runs = 0
    /\ clock = [day |-> 0, ms |-> 0]
    /\ dirs = <<>>
    /\ source = SourceAtCheckout
    /\ files = <<>>
    /\ args = NoConfig
    /\ config = NoConfig
    /\ ws = NoWs
    /\ idx = 0
    /\ sidx = 0
    /\ cur = <<>>
    /\ results = <<>>
    /\ status = "none"
    /\ exitCode = NoCode
    /\ summary = NoSummary
    /\ adapterCalls = {}
    /\ wsUsed = {}
    /\ writes = <<>>
    /\ subprocs = 0
    /\ install = NoInstall
    /\ removal = NoRemoval
    /\ prevWs = NoPrev
    /\ replaced = {}
    /\ inflight = {}
    /\ harnessExit = NoExit
    /\ calls = <<>>
    /\ hpc = "h_idle"
    /\ argv = <<>>
    /\ hargs = HarnessArgsDefaults
    /\ out = <<>>
    /\ hexit = NoCode
    /\ perfNow = 0
    /\ meas = NoMeasure
    /\ live = {}
    /\ log = <<>>
    /\ spc = "s_idle"
    /\ samples = <<>>
    /\ statsOut = Returned(<<>>)
    /\ shuffled = <<>>
    /\ shuffledOut = Returned(<<>>)
    /\ pct = NoPercentile
    /\ jpc = "j_idle"
    /\ doc = <<>>
    /\ validated = Threw("")
    /\ text = <<>>
    /\ reparsed = <<>>
    /\ revalidated = Threw("")
    /\ wcalls = [p \in 1..MaxCalls |-> IdleCall]
    /\ cacheDirs = <<>>
    /\ jsonDir = "d0"
    /\ cacheStore = <<>>
    /\ tempFile = NoValue
    /\ reqs = [r \in 1..MaxRequests |-> IdleRequest]
    /\ bpc = "b_idle"
    /\ bopts = <<>>
    /\ bargv = <<>>
    /\ started = <<>>
    /\ dpc = "d_idle"
    /\ dargs = <<>>
    /\ dcall = <<>>
    /\ dresult = <<>>

(***************************************************************************)
(* runCommand, lines 171-215: parse the arguments                          *)
(***************************************************************************)
\* what the previous invocation's useWorkspace call did
Remember ==
    IF ws.entered
    THEN [called |-> TRUE, useCache |-> ws.useCache, key |-> ws.key, dir |-> ws.dir,
          installRan |-> install.ran, installCode |-> install.code,
          provided |-> ws.provided]
    ELSE prevWs

Invoke(a, d, src) ==
    /\ pc \in {"idle", "done"}
    /\ runs' = runs + 1
    /\ source' = src
    /\ clock' = [day |-> clock.day + d, ms |-> clock.ms + 1]
    /\ args' = a
    /\ IF configliereParse(a).ok
       THEN /\ config' = configliereParse(a).config
            /\ pc' = "ws_enter"
            /\ status' = "none"
            /\ exitCode' = NoCode
       ELSE /\ config' = NoConfig
            /\ pc' = "done"
            /\ status' = "returned"
            /\ exitCode' = 1
    /\ ws' = NoWs
    /\ idx' = 0
    /\ sidx' = 0
    /\ cur' = <<>>
    /\ results' = <<>>
    /\ summary' = NoSummary
    /\ adapterCalls' = {}
    /\ wsUsed' = {}
    /\ writes' = <<>>
    /\ subprocs' = 0
    /\ install' = NoInstall
    /\ removal' = NoRemoval
    /\ prevWs' = Remember
    /\ replaced' = {}
    /\ inflight' = {}
    /\ harnessExit' = NoExit
    /\ calls' = <<>>
    /\ UNCHANGED <<dirs, files, hVars, auxVars>>

\* one invocation of the command
RunOnce == runs = 0 /\ \E a \in RunArgs : Invoke(a, 0, SourceAtCheckout)

\* successive invocations, on the same day or the next, the source tree as
\* it was or edited in between
RunAgain ==
    runs < MaxRuns /\ \E a \in RepeatArgs, d \in {0, 1}, src \in SourceTrees : Invoke(a, d, src)

(***************************************************************************)
(* useWorkspace                                                            *)
(***************************************************************************)
orchVars == <<idx, sidx, cur, results, summary, adapterCalls, wsUsed, writes, replaced, harnessExit,
              calls>>
reqVars == <<runs, clock, source, args, config, prevWs>>

\* lines 197-218: choose the directory and decide whether to install
UseWorkspaceEnter ==
    /\ pc = "ws_enter"
    /\ LET wc == WorkspaceConfig(config)
           key == IF wc.useCache THEN computeCacheKey(wc) ELSE <<>>
           dir == IF wc.useCache THEN CachePath(key) ELSE TempPath(runs)
           existed == dir \in DOMAIN dirs
           made == IF existed THEN dirs ELSE (dir :> EmptyDir) @@ dirs
       IN /\ dirs' = made
          /\ ws' = [entered |-> TRUE, enters |-> ws.enters + 1, useCache |-> wc.useCache, key |-> key, dir |-> dir,
                    shouldCleanup |-> ~wc.useCache,
                    needsNpmInstall |-> IF wc.useCache THEN ~hasNodeModules(made, dir) ELSE TRUE,
                    provided |-> FALSE, dirExisted |-> existed]
    /\ pc' = "ws_manifest"
    /\ UNCHANGED <<files, status, exitCode, subprocs, install, removal, inflight>>
    /\ UNCHANGED <<orchVars, reqVars, hVars, auxVars>>

\* lines 221-229: write package.json and deno.json, then start npm install
UseWorkspaceWriteManifest(ioOk) ==
    /\ pc = "ws_manifest"
    /\ IF ioOk
       THEN /\ dirs' = [dirs EXCEPT ![ws.dir].packageJson = computeCacheKey(WorkspaceConfig(config))]
            /\ IF ws.needsNpmInstall
               THEN /\ pc' = "ws_install"
                    /\ subprocs' = subprocs + 1
                    /\ install' = [install EXCEPT !.ran = TRUE, !.count = @ + 1]
               ELSE /\ pc' = "ws_copy"
                    /\ UNCHANGED <<subprocs, install>>
            /\ UNCHANGED status
       ELSE /\ pc' = "cleanup"
            /\ status' = "raised"
            /\ UNCHANGED <<dirs, subprocs, install>>
    /\ UNCHANGED <<files, ws, exitCode, removal, inflight>>
    /\ UNCHANGED <<orchVars, reqVars, hVars, auxVars>>

\* lines 229-233: npm install exits
UseWorkspaceInstallExit(code, leaves) ==
    /\ pc = "ws_install"
    /\ dirs' = [dirs EXCEPT ![ws.dir].nodeModules = AfterInstall(@, code, leaves)]
    /\ install' = [install EXCEPT !.finished = TRUE, !.code = code]
    /\ IF installFails(code)
       THEN pc' = "cleanup" /\ status' = "raised"
       ELSE pc' = "ws_copy" /\ UNCHANGED status
    /\ UNCHANGED <<files, ws, exitCode, subprocs, removal, inflight>>
    /\ UNCHANGED <<orchVars, reqVars, hVars, auxVars>>

\* lines 235-238: copy the harness and scenario files, provide the workspace
UseWorkspaceCopy(ioOk) ==
    /\ pc = "ws_copy"
    /\ IF ioOk
       THEN /\ dirs' = [dirs EXCEPT ![ws.dir].cli = copyWorkspaceFiles(source, @)]
            /\ ws' = [ws EXCEPT !.provided = TRUE]
            /\ pc' = "rt_detect"
            /\ idx' = 1
            /\ UNCHANGED status
       ELSE /\ pc' = "cleanup"
            /\ status' = "raised"
            /\ UNCHANGED <<dirs, ws, idx>>
    /\ UNCHANGED <<files, exitCode, subprocs, install, removal, inflight>>
    /\ UNCHANGED <<sidx, cur, results, summary, adapterCalls, wsUsed, writes, replaced, harnessExit, calls, reqVars, hVars, auxVars>>

\* lines 239-246: the finally block, on every exit of the scope
UseWorkspaceCleanup(rmOk) ==
    /\ pc = "cleanup"
    /\ LET c == cleanup(ws.shouldCleanup, rmOk) IN
        /\ removal' = [attempted |-> c.attempted, removed |-> c.removed,
                       raised |-> c.raised, failed |-> c.attempted /\ ~rmOk]
        /\ dirs' = IF c.removed THEN [p \in DOMAIN dirs \ {ws.dir} |-> dirs[p]] ELSE dirs
        /\ status' = IF c.raised THEN "raised" ELSE status
        /\ exitCode' = IF c.raised THEN NoCode ELSE exitCode
    /\ pc' = "done"
    /\ UNCHANGED <<files, ws, subprocs, install, inflight>>
    /\ UNCHANGED <<orchVars, reqVars, hVars, auxVars>>

(***************************************************************************)
(* runCommand, lines 219-232, and runForRuntime                            *)
(***************************************************************************)
Runtime == config.runtime[idx]

wsVars == <<dirs, ws, install, removal>>

\* variant of NextRuntime: the workspace is provisioned again for the next runtime
NextRuntime_reprovisions ==
    IF idx < Len(config.runtime)
    THEN idx' = idx + 1 /\ pc' = "ws_enter"
    ELSE idx' = idx /\ pc' = "write"

\* the loop of lines 221-232 goes to the next runtime, or leaves
NextRuntime ==
    IF idx < Len(config.runtime)
    THEN idx' = idx + 1 /\ pc' = "rt_detect"
    ELSE idx' = idx /\ pc' = "write"

\* variant of RuntimeEnds: the loop goes on without recording the Result
RuntimeEnds_unrecorded(outcome) ==
    /\ results' = results
    /\ NextRuntime
    /\ sidx' = 0
    /\ cur' = <<>>

\* variant of RuntimeEnds: the results are written as soon as a runtime ends
RuntimeEnds_writesEarly(outcome) ==
    /\ results' = Append(results, wrapResult(Runtime, outcome))
    /\ idx' = idx
    /\ pc' = "write"
    /\ sidx' = 0
    /\ cur' = <<>>

\* runForRuntime ended: wrapResult turns its outcome into a Result
RuntimeEnds(outcome) ==
    /\ results' = Append(results, wrapResult(Runtime, outcome))
    /\ NextRuntime
    /\ sidx' = 0
    /\ cur' = <<>>

\* run.ts lines 116-122: adapter.detect()
AdapterDetect(available) ==
    /\ pc = "rt_detect"
    /\ adapterCalls' = adapterCalls \cup {idx}
    /\ wsUsed' = wsUsed \cup {ws.dir}
    /\ subprocs' = subprocs + 1
    /\ IF available
       THEN pc' = "rt_version" /\ UNCHANGED <<idx, sidx, cur, results>>
       ELSE RuntimeEnds(Threw("unavailable"))
    /\ UNCHANGED <<files, status, exitCode, summary, writes, replaced, inflight, harnessExit, calls>>
    /\ UNCHANGED <<wsVars, reqVars, hVars, auxVars>>

\* run.ts lines 125-128: adapter.version()
AdapterVersion(ok) ==
    /\ pc = "rt_version"
    /\ subprocs' = subprocs + 1
    /\ IF ok
       THEN pc' = "sc_version" /\ sidx' = 1 /\ cur' = <<>> /\ UNCHANGED <<idx, results>>
       ELSE RuntimeEnds(Threw("exec"))
    /\ UNCHANGED <<files, status, exitCode, summary, adapterCalls, wsUsed, writes, replaced,
                   inflight, harnessExit, calls>>
    /\ UNCHANGED <<wsVars, reqVars, hVars, auxVars>>

\* variant of ScenarioEnds: the loop steps over the scenario after this one
ScenarioEnds_skipsNext(outcome) ==
    IF outcome.threw
    THEN RuntimeEnds(outcome)
    ELSE IF sidx + 1 < Len(SCENARIOS)
         THEN /\ cur' = Append(cur, outcome.value)
              /\ sidx' = sidx + 2
              /\ pc' = "sc_version"
              /\ UNCHANGED <<idx, results>>
         ELSE RuntimeEnds(Returned(Append(cur, outcome.value)))

\* run.ts lines 144-150: a scenario returned its result
\* variant of ScenarioEnds: a failed scenario ends the runtime with the results so far
ScenarioEnds_keepsPartial(outcome) ==
    IF outcome.threw
    THEN RuntimeEnds(Returned(cur))
    ELSE IF sidx < Len(SCENARIOS)
         THEN /\ cur' = Append(cur, outcome.value)
              /\ sidx' = sidx + 1
              /\ pc' = "sc_version"
              /\ UNCHANGED <<idx, results>>
         ELSE RuntimeEnds(Returned(Append(cur, outcome.value)))

ScenarioEnds(outcome) ==
    IF outcome.threw
    THEN RuntimeEnds(outcome)
    ELSE IF sidx < Len(SCENARIOS)
         THEN /\ cur' = Append(cur, outcome.value)
              /\ sidx' = sidx + 1
              /\ pc' = "sc_version"
              /\ UNCHANGED <<idx, results>>
         ELSE RuntimeEnds(Returned(Append(cur, outcome.value)))

\* adapter.runScenario(): this.version(), then the mock record or the harness
RunScenarioVersion(ok) ==
    /\ pc = "sc_version"
    /\ calls' = Append(calls, <<idx, SCENARIOS[sidx]>>)
    /\ IF ~ok
       THEN subprocs' = subprocs + 1 /\ RuntimeEnds(Threw("exec")) /\ UNCHANGED inflight
       ELSE IF UsesHarness(Runtime)
            THEN /\ pc' = "sc_harness"
                 /\ subprocs' = subprocs + 2
                 /\ inflight' = inflight \cup {<<idx, sidx>>}
                 /\ UNCHANGED <<idx, sidx, cur, results>>
            ELSE /\ subprocs' = subprocs + 1
                 /\ ScenarioEnds(mockRunScenario(Runtime, ScenarioOpts(config, SCENARIOS[sidx]), clock))
                 /\ UNCHANGED inflight
    /\ UNCHANGED <<files, status, exitCode, summary, adapterCalls, wsUsed, writes, replaced, harnessExit>>
    /\ UNCHANGED <<wsVars, reqVars, hVars, auxVars>>

\* harness.ts lines 129-159: the harness subprocess exits
RunScenarioHarnessExit(code, stdout) ==
    /\ pc = "sc_harness"
    /\ LET opts == ScenarioOpts(config, SCENARIOS[sidx])
           outcome == invokeHarness(Runtime, opts, code, stdout, clock)
           harnessOutput == parseHarnessOutput(stdout)
       IN /\ ScenarioEnds(outcome)
          /\ harnessExit' = [seen |-> TRUE, idx |-> idx, sidx |-> sidx,
                             cwd |-> ExecCwd(HarnessInvokeOpts(Runtime, opts).cwd),
                             code |-> code, stdout |-> stdout,
                             parsed |-> IF code = 0 /\ ~harnessOutput.threw
                                        THEN harnessOutput.value ELSE <<>>,
                             threw |-> outcome.threw, error |-> outcome.error]
    /\ inflight' = inflight \ {<<idx, sidx>>}
    /\ UNCHANGED <<files, status, exitCode, summary, adapterCalls, wsUsed, writes, replaced, subprocs,
                   calls>>
    /\ UNCHANGED <<wsVars, reqVars, hVars, auxVars>>

\* run.ts lines 234-244: write the records of the successful runtimes
WriteResults ==
    /\ pc = "write"
    /\ LET toWrite == Flatten(successes(results))
       IN /\ files' = writeAll(files, toWrite)
          /\ writes' = toWrite
          /\ replaced' = {ResultPath(toWrite[i]) : i \in DOMAIN toWrite} \cap DOMAIN files
    /\ pc' = "report"
    /\ UNCHANGED <<idx, sidx, cur, results, summary, adapterCalls, wsUsed, subprocs, status,
                   exitCode, inflight, harnessExit, calls>>
    /\ UNCHANGED <<wsVars, reqVars, hVars, auxVars>>

\* variant of Report: the summary is printed and runCommand does not return
Report_noReturn ==
    /\ pc = "report"
    /\ LET failedResults == failures(results)
       IN /\ summary' = [printed |-> TRUE, written |-> Len(Flatten(successes(results))),
                         failed |-> [i \in DOMAIN failedResults |-> failedResults[i].context]]
          /\ exitCode' = exitCode
    /\ status' = status
    /\ pc' = "cleanup"
    /\ UNCHANGED <<idx, sidx, cur, results, adapterCalls, wsUsed, subprocs, files, writes, replaced,
                   inflight, harnessExit, calls>>
    /\ UNCHANGED <<wsVars, reqVars, hVars, auxVars>>

\* run.ts lines 246-258: report the failures, print the summary, return
Report ==
    /\ pc = "report"
    /\ LET failedResults == failures(results)
       IN /\ summary' = [printed |-> TRUE, written |-> Len(Flatten(successes(results))),
                         failed |-> [i \in DOMAIN failedResults |-> failedResults[i].context]]
          /\ exitCode' = exitCodeOf(failedResults)
    /\ status' = "returned"
    /\ pc' = "cleanup"
    /\ UNCHANGED <<idx, sidx, cur, results, adapterCalls, wsUsed, subprocs, files, writes, replaced,
                   inflight, harnessExit, calls>>
    /\ UNCHANGED <<wsVars, reqVars, hVars, auxVars>>

\* the root scope is halted (an interrupt) while the command waits for a
\* subprocess; an interrupted npm install leaves what AfterInstall says
Halt(leaves) ==
    /\ pc \in {"ws_install", "rt_detect", "rt_version", "sc_version", "sc_harness"}
    /\ dirs' = IF pc = "ws_install"
               THEN [dirs EXCEPT ![ws.dir].nodeModules = AfterInstall(@, 1, leaves)]
               ELSE dirs
    /\ status' = "halted"
    /\ pc' = "cleanup"
    /\ inflight' = {}
    /\ UNCHANGED <<files, ws, exitCode, subprocs, install, removal>>
    /\ UNCHANGED <<orchVars, reqVars, hVars, auxVars>>

(***************************************************************************)
(* The harness process: cli/harness/entry.ts and cli/harness/measure.ts    *)
(***************************************************************************)
\* entry.ts lines 56-72: parse and validate the arguments, look the scenario up
HarnessMain(av) ==
    /\ hpc = "h_idle"
    /\ argv' = av
    /\ hargs' = parseHarnessArgs(av)
    /\ IF validateHarnessArgs(parseHarnessArgs(av)) # NoValue
          \/ ~getScenario(parseHarnessArgs(av).scenario).found
       THEN hpc' = "h_exited" /\ hexit' = 1 /\ meas' = meas
       ELSE hpc' = "h_loop" /\ hexit' = hexit /\ meas' = [meas EXCEPT !.loop = "warmup"]
    /\ UNCHANGED <<out, perfNow, live, log, runVars, auxVars>>

\* a call of scenarioFn whose `run` is undefined throws a TypeError, which
\* main() reports on stderr before it exits with code 1
CallScenario(kind) ==
    IF getScenario(hargs.scenario).run
    THEN /\ hpc' = "h_scenario"
         /\ log' = Append(log, [kind |-> kind, depth |-> hargs.depth])
         /\ hexit' = hexit
    ELSE /\ hpc' = "h_exited"
         /\ hexit' = 1
         /\ log' = log

\* measure.ts lines 26-28: the next warmup run starts
MeasureWarmup ==
    /\ hpc = "h_loop"
    /\ meas.loop = "warmup"
    /\ WarmupLoop(meas.i, hargs)
    /\ CallScenario("warmup")
    /\ meas' = [meas EXCEPT !.scope = @ + 1, !.spawned = 0]
    /\ UNCHANGED <<argv, hargs, out, perfNow, live, runVars, auxVars>>

\* measure.ts lines 31-34: the warmup loop is over; the next measured run starts
MeasureRun ==
    /\ hpc = "h_loop"
    /\ LET i == IF meas.loop = "warmup" THEN 0 ELSE meas.i IN
        /\ meas.loop = "warmup" => ~WarmupLoop(meas.i, hargs)
        /\ MeasuredLoop(i, hargs)
        /\ CallScenario("measured")
        /\ meas' = [meas EXCEPT !.loop = "measured", !.i = i, !.start = perfNow,
                                !.scope = @ + 1, !.spawned = 0]
    /\ UNCHANGED <<argv, hargs, out, perfNow, live, runVars, auxVars>>

\* the scenario spawns a child task
ScenarioSpawn ==
    /\ hpc = "h_scenario"
    /\ meas.spawned < MaxTasks
    /\ live' = live \cup {<<meas.scope, meas.spawned + 1>>}
    /\ meas' = [meas EXCEPT !.spawned = @ + 1]
    /\ UNCHANGED <<hpc, argv, hargs, out, hexit, perfNow, log, runVars, auxVars>>

\* a child task of the scenario ends by itself
ScenarioChildEnds(t) ==
    /\ hpc = "h_scenario"
    /\ t \in live
    /\ live' = live \ {t}
    /\ UNCHANGED <<hpc, argv, hargs, out, hexit, perfNow, meas, log, runVars, auxVars>>

\* the scenario returns after dt milliseconds: scoped() ends, and a measured
\* run pushes performance.now() - start (measure.ts lines 27, 34-36)
ScenarioReturns(dt) ==
    /\ hpc = "h_scenario"
    /\ perfNow' = perfNow + dt
    /\ live' = scoped(live, meas.scope)
    /\ meas' = [meas EXCEPT
                  !.i = @ + 1,
                  !.halted = Cardinality({t \in live : t[1] = meas.scope}),
                  !.times = IF meas.loop = "measured" THEN Append(@, perfNow' - meas.start) ELSE @,
                  !.durations = IF meas.loop = "measured" THEN Append(@, dt) ELSE @]
    /\ hpc' = "h_loop"
    /\ UNCHANGED <<argv, hargs, out, hexit, log, runVars, auxVars>>

\* the scenario throws: scoped() ends, measure raises, main() exits with code 1
ScenarioThrows ==
    /\ hpc = "h_scenario"
    /\ live' = scoped(live, meas.scope)
    /\ meas' = [meas EXCEPT !.halted = Cardinality({t \in live : t[1] = meas.scope})]
    /\ hpc' = "h_exited"
    /\ hexit' = 1
    /\ UNCHANGED <<argv, hargs, out, perfNow, log, runVars, auxVars>>

\* measure.ts lines 39-40 and entry.ts lines 81-106: the statistics, the
\* output, exit 0; calculateStats throws on no sample and main() exits 1
MeasureReturn ==
    /\ hpc = "h_loop"
    /\ LET i == IF meas.loop = "warmup" THEN 0 ELSE meas.i IN
        /\ meas.loop = "warmup" => ~WarmupLoop(meas.i, hargs)
        /\ ~MeasuredLoop(i, hargs)
    /\ LET stats == calculateStats(meas.times) IN
        /\ meas' = [meas EXCEPT !.statsOf = meas.times, !.returned = ~stats.threw]
        /\ IF stats.threw
           THEN hexit' = 1 /\ out' = out
           ELSE /\ hexit' = 0
                /\ out' = out \o (IF hargs.json
                                  THEN <<JsonOutput(getScenario(hargs.scenario).library)>>
                                  ELSE TextOutput)
    /\ hpc' = "h_exited"
    /\ UNCHANGED <<argv, hargs, perfNow, live, log, runVars, auxVars>>

(***************************************************************************)
(* Specifications                                                          *)
(***************************************************************************)
Step ==
    \/ UseWorkspaceEnter
    \/ \E ioOk \in BOOLEAN : UseWorkspaceWriteManifest(ioOk)
    \/ \E code \in {0, 1}, leaves \in BOOLEAN : UseWorkspaceInstallExit(code, leaves)
    \/ \E ioOk \in BOOLEAN : UseWorkspaceCopy(ioOk)
    \/ \E rmOk \in BOOLEAN : UseWorkspaceCleanup(rmOk)
    \/ \E available \in BOOLEAN : AdapterDetect(available)
    \/ \E ok \in BOOLEAN : AdapterVersion(ok)
    \/ \E ok \in BOOLEAN : RunScenarioVersion(ok)
    \/ \E code \in {0, 1}, stdout \in Stdouts : RunScenarioHarnessExit(code, stdout)
    \/ WriteResults
    \/ Report
    \/ \E leaves \in BOOLEAN : Halt(leaves)

\* one invocation of the run command, any command line
Next == RunOnce \/ Step

\* the steps of an invocation that nothing interrupts: the command's own
\* steps and the exits of the subprocesses it waits for
Progress ==
    \/ UseWorkspaceEnter
    \/ \E ioOk \in BOOLEAN : UseWorkspaceWriteManifest(ioOk)
    \/ \E code \in {0, 1}, leaves \in BOOLEAN : UseWorkspaceInstallExit(code, leaves)
    \/ \E ioOk \in BOOLEAN : UseWorkspaceCopy(ioOk)
    \/ \E rmOk \in BOOLEAN : UseWorkspaceCleanup(rmOk)
    \/ \E available \in BOOLEAN : AdapterDetect(available)
    \/ \E ok \in BOOLEAN : AdapterVersion(ok)
    \/ \E ok \in BOOLEAN : RunScenarioVersion(ok)
    \/ \E code \in {0, 1}, stdout \in Stdouts : RunScenarioHarnessExit(code, stdout)
    \/ WriteResults
    \/ Report

RunToEnd == runs = 0 /\ \E a \in LiveArgs : Invoke(a, 0, SourceAtCheckout)

NextLive == RunToEnd \/ Progress

\* an invocation in which every subprocess that was started exits and every
\* step of the command that can be taken is taken
SpecLive == Init /\ [][NextLive]_vars /\ WF_vars(Progress)

Spec == Init /\ [][Next]_vars

\* successive invocations of the run command over the same disk
NextRepeat == RunAgain \/ Step

SpecRepeat == Init /\ [][NextRepeat]_vars

\* one run of the harness process, any argument vector
NextHarness ==
    \/ \E av \in HarnessArgvs : HarnessMain(av)
    \/ MeasureWarmup
    \/ MeasureRun
    \/ ScenarioSpawn
    \/ \E t \in live : ScenarioChildEnds(t)
    \/ \E dt \in {0, 1} : ScenarioReturns(dt)
    \/ ScenarioThrows
    \/ MeasureReturn

SpecHarness == Init /\ [][NextHarness]_vars

(***************************************************************************)
(* Callers of the statistics functions                                     *)
(***************************************************************************)
\* measure.ts line 39: calculateStats(times)
StatsCall(times) ==
    /\ spc = "s_idle" /\ ~pct.called
    /\ samples' = times
    /\ statsOut' = calculateStats(times)
    /\ spc' = "s_called"
    /\ UNCHANGED <<shuffled, shuffledOut, pct, nonStats>>

\* calculateStats on the same samples taken in another order
StatsCallShuffled(f) ==
    /\ spc = "s_called" /\ ~statsOut.threw
    /\ shuffled' = [i \in DOMAIN samples |-> samples[f[i]]]
    /\ shuffledOut' = calculateStats(shuffled')
    /\ spc' = "s_shuffled"
    /\ UNCHANGED <<samples, statsOut, pct, nonStats>>

\* percentile(sorted, p) on an ascending non-empty array
PercentileCall(sorted, p) ==
    /\ spc = "s_idle" /\ ~pct.called
    /\ pct' = [called |-> TRUE, sorted |-> sorted, p |-> p, value |-> percentile(sorted, p)]
    /\ UNCHANGED <<spc, samples, statsOut, shuffled, shuffledOut, nonStats>>

NextStats ==
    \/ spc = "s_idle" /\ ~pct.called /\ \E times \in SampleVectors : StatsCall(times)
    \/ spc = "s_called" /\ \E f \in Reorderings(Len(samples)) : StatsCallShuffled(f)
    \/ spc = "s_idle" /\ ~pct.called
          /\ \E sorted \in SortedVectors, p \in 0..100 : PercentileCall(sorted, p)

SpecStats == Init /\ [][NextStats]_vars

(***************************************************************************)
(* A writer and a reader of a result file                                  *)
(***************************************************************************)
\* schema.ts lines 170-172: validateBenchmarkResult(data)
ValidateCall(d) ==
    /\ jpc = "j_idle"
    /\ doc' = d
    /\ validated' = BenchmarkResultSchemaParse(d)
    /\ jpc' = "j_validated"
    /\ UNCHANGED <<text, reparsed, revalidated, nonJson>>

\* run.ts line 163: JSON.stringify(result, null, 2) of a validated record
WriteJson ==
    /\ jpc = "j_validated"
    /\ ~validated.threw
    /\ text' = JsonStringify(validated.value)
    /\ jpc' = "j_written"
    /\ UNCHANGED <<doc, validated, reparsed, revalidated, nonJson>>

\* the file is read back: JSON.parse, then validateBenchmarkResult
ReadJson ==
    /\ jpc = "j_written"
    /\ reparsed' = JsonParse(text)
    /\ revalidated' = BenchmarkResultSchemaParse(JsonParse(text))
    /\ jpc' = "j_read"
    /\ UNCHANGED <<doc, validated, text, nonJson>>

NextJson ==
    \/ jpc = "j_idle" /\ \E d \in JsonDocs : ValidateCall(d)
    \/ WriteJson
    \/ ReadJson

SpecJson == Init /\ [][NextJson]_vars

(***************************************************************************)
(* Concurrent useWorkspace calls (SpecCalls): several invocations of the   *)
(* command, each in its own process, provisioning workspaces on one disk.  *)
(* Every `yield* call(...)` of useWorkspace is one step.                   *)
(***************************************************************************)
CallConfigs ==
    {[effectionVersion |-> r, comparisonVersions |-> loadConfig, useCache |-> c] :
        r \in Releases, c \in BOOLEAN}

\* the calls whose npm install subprocess is running in directory `dir`
Installing(w, dir) == {q \in DOMAIN w : w[q].pc = "c_install" /\ w[q].dir = dir}

\* lines 197-207 and 217-221: the call starts; temp mode makes its own directory
CallUseWorkspace(p, wc) ==
    /\ wcalls[p].pc = "c_idle"
    /\ IF wc.useCache
       THEN /\ wcalls' = [wcalls EXCEPT ![p] =
                  [IdleCall EXCEPT !.pc = "c_mkdir", !.useCache = TRUE,
                                   !.key = computeCacheKey(wc),
                                   !.dir = CachePath(computeCacheKey(wc))]]
            /\ UNCHANGED cacheDirs
       ELSE /\ wcalls' = [wcalls EXCEPT ![p] =
                  [IdleCall EXCEPT !.pc = "c_manifest", !.key = computeCacheKey(wc),
                                   !.dir = TempPath(p), !.shouldCleanup = TRUE,
                                   !.needsNpmInstall = TRUE]]
            /\ cacheDirs' = (TempPath(p) :> EmptyDir) @@ cacheDirs
    /\ UNCHANGED nonCalls

\* line 208: Deno.mkdir(dir, { recursive: true })
CallMkdir(p) ==
    /\ wcalls[p].pc = "c_mkdir"
    /\ cacheDirs' = IF wcalls[p].dir \in DOMAIN cacheDirs THEN cacheDirs
                    ELSE (wcalls[p].dir :> EmptyDir) @@ cacheDirs
    /\ wcalls' = [wcalls EXCEPT ![p].pc = "c_check"]
    /\ UNCHANGED nonCalls

\* a check that waits while another call installs in the directory
CallCheck_locked(p) ==
    /\ wcalls[p].pc = "c_check"
    /\ wcalls' = [wcalls EXCEPT ![p].pc = "c_manifest",
                     ![p].needsNpmInstall = /\ ~hasNodeModules(cacheDirs, wcalls[p].dir)
                                            /\ Installing(wcalls, wcalls[p].dir) = {}]
    /\ UNCHANGED <<cacheDirs, nonCalls>>

\* line 211: needsNpmInstall = !hasNodeModules(dir)
CallCheck(p) ==
    /\ wcalls[p].pc = "c_check"
    /\ wcalls' = [wcalls EXCEPT ![p].pc = "c_manifest",
                     ![p].needsNpmInstall = ~hasNodeModules(cacheDirs, wcalls[p].dir)]
    /\ UNCHANGED <<cacheDirs, nonCalls>>

\* lines 221-229: write package.json and deno.json, then start npm install
CallWriteManifest(p, ioOk) ==
    /\ wcalls[p].pc = "c_manifest"
    /\ IF ioOk
       THEN /\ cacheDirs' = [cacheDirs EXCEPT ![wcalls[p].dir].packageJson = wcalls[p].key]
            /\ wcalls' = [wcalls EXCEPT ![p].pc =
                             IF wcalls[p].needsNpmInstall THEN "c_install" ELSE "c_copy"]
       ELSE /\ wcalls' = [wcalls EXCEPT ![p].pc = "c_cleanup", ![p].outcome = "raised"]
            /\ UNCHANGED cacheDirs
    /\ UNCHANGED nonCalls

\* lines 229-233: npm install exits
CallInstallExit(p, code, leaves) ==
    /\ wcalls[p].pc = "c_install"
    /\ cacheDirs' = [cacheDirs EXCEPT ![wcalls[p].dir].nodeModules = AfterInstall(@, code, leaves)]
    /\ wcalls' = IF installFails(code)
                 THEN [wcalls EXCEPT ![p].pc = "c_cleanup", ![p].outcome = "raised"]
                 ELSE [wcalls EXCEPT ![p].pc = "c_copy"]
    /\ UNCHANGED nonCalls

\* lines 235-238: copy the harness and scenario files, provide the workspace
CallCopy(p, ioOk) ==
    /\ wcalls[p].pc = "c_copy"
    /\ IF ioOk
       THEN /\ cacheDirs' = [cacheDirs EXCEPT ![wcalls[p].dir].cli =
                                copyWorkspaceFiles(SourceAtCheckout, @)]
            /\ wcalls' = [wcalls EXCEPT ![p].pc = "c_provided"]
       ELSE /\ wcalls' = [wcalls EXCEPT ![p].pc = "c_cleanup", ![p].outcome = "raised"]
            /\ UNCHANGED cacheDirs
    /\ UNCHANGED nonCalls

\* line 238: the scope that asked for the workspace ends
CallRelease(p) ==
    /\ wcalls[p].pc = "c_provided"
    /\ wcalls' = [wcalls EXCEPT ![p].pc = "c_cleanup", ![p].outcome = "provided"]
    /\ UNCHANGED <<cacheDirs, nonCalls>>

\* lines 239-246: the finally block removes a temp directory
CallCleanup(p) ==
    /\ wcalls[p].pc = "c_cleanup"
    /\ cacheDirs' = IF wcalls[p].shouldCleanup
                    THEN [d \in DOMAIN cacheDirs \ {wcalls[p].dir} |-> cacheDirs[d]]
                    ELSE cacheDirs
    /\ wcalls' = [wcalls EXCEPT ![p].pc = "c_done"]
    /\ UNCHANGED nonCalls

NextCalls ==
    \/ \E p \in 1..MaxCalls, wc \in CallConfigs : CallUseWorkspace(p, wc)
    \/ \E p \in 1..MaxCalls : CallMkdir(p)
    \/ \E p \in 1..MaxCalls : CallCheck(p)
    \/ \E p \in 1..MaxCalls, ioOk \in BOOLEAN : CallWriteManifest(p, ioOk)
    \/ \E p \in 1..MaxCalls, code \in {0, 1}, leaves \in BOOLEAN : CallInstallExit(p, code, leaves)
    \/ \E p \in 1..MaxCalls, ioOk \in BOOLEAN : CallCopy(p, ioOk)
    \/ \E p \in 1..MaxCalls : CallRelease(p)
    \/ \E p \in 1..MaxCalls : CallCleanup(p)

SpecCalls == Init /\ [][NextCalls]_vars


(***************************************************************************)
(* The site server's /api/benchmarks.parquet route (SpecServer): requests  *)
(* handled concurrently by cached(generateParquetResponse, parquetCacheKey)*)
(* while the files of data/json change. Every `yield* call(...)` that      *)
(* touches the directory, the cache or the temp file is one step.          *)
(***************************************************************************)
\* hashElement(jsonDirPath, ...): a digest of the names and contents
hashElement(c) == <<"sha1", c>>

parquetCacheKey(c) == <<"http://cache.local/api/benchmarks.parquet?v=", hashElement(c)>>

\* Response.ok
ResponseOk(resp) == resp.status >= 200 /\ resp.status <= 299

\* a benchmark result file is added to, changed in or removed from data/json
DirChange(c) ==
    /\ c # jsonDir
    /\ jsonDir' = c
    /\ UNCHANGED <<cacheStore, tempFile, reqs, nonServer>>

\* cache.ts 17-19: a request arrives; keyFn hashes the directory
CachedKey(r) ==
    /\ reqs[r].pc = "r_idle"
    /\ reqs' = [reqs EXCEPT ![r] = [IdleRequest EXCEPT !.pc = "r_match",
                                       !.key = parquetCacheKey(jsonDir),
                                       !.atRequest = jsonDir]]
    /\ UNCHANGED <<jsonDir, cacheStore, tempFile, nonServer>>

\* history: a request with this key has just been answered with an error response
ErrorReturnedFor(rs, key) ==
    \E q \in DOMAIN rs :
        rs[q].pc = "r_done" /\ rs[q].key = key /\ ~ResponseOk(rs[q].response)

\* cache.ts 21-28: cache.match; a hit is returned, a miss invokes the handler
CachedMatch(r) ==
    /\ reqs[r].pc = "r_match"
    /\ reqs' = IF reqs[r].key \in DOMAIN cacheStore
               THEN [reqs EXCEPT ![r].pc = "r_done", ![r].hit = TRUE,
                                 ![r].response = cacheStore[reqs[r].key]]
               ELSE [reqs EXCEPT ![r].pc = "r_query", ![r].invoked = TRUE,
                                 ![r].afterError = ErrorReturnedFor(reqs, reqs[r].key)]
    /\ UNCHANGED <<jsonDir, cacheStore, tempFile, nonServer>>

\* part_013 69-90 and 133-141: CREATE TABLE ... FROM read_json_auto(data/json/*.json),
\* or a DuckDB error that generateParquetResponse turns into a 500
GenerateQuery(r, ok) ==
    /\ reqs[r].pc = "r_query"
    /\ IF ok
       THEN reqs' = [reqs EXCEPT ![r].pc = "r_copy", ![r].table = jsonDir,
                                 ![r].afterError = FALSE]
       ELSE reqs' = [reqs EXCEPT ![r].pc = "r_put", ![r].afterError = FALSE,
                                 ![r].response = [status |-> 500, from |-> NoValue]]
    /\ UNCHANGED <<jsonDir, cacheStore, tempFile, nonServer>>

\* part_013 92-99: COPY ... TO '.cache/benchmarks.parquet'; the table goes with
\* the database when generateParquet ends, and is not read again
GenerateCopy(r) ==
    /\ reqs[r].pc = "r_copy"
    /\ tempFile' = reqs[r].table
    /\ reqs' = [reqs EXCEPT ![r].pc = "r_read", ![r].table = NoValue]
    /\ UNCHANGED <<jsonDir, cacheStore, nonServer>>

\* part_013 101-103: Deno.readFile(tempParquetPath); it throws if the file is gone
GenerateRead(r) ==
    /\ reqs[r].pc = "r_read"
    /\ reqs' = [reqs EXCEPT ![r].pc = "r_remove", ![r].bytes = tempFile]
    /\ UNCHANGED <<jsonDir, cacheStore, tempFile, nonServer>>

\* part_013 104-109 and 121-141: the finally block removes the temp file, then
\* generateParquetResponse builds the 200 response or, after a throw, the 500
GenerateRemove(r) ==
    /\ reqs[r].pc = "r_remove"
    /\ tempFile' = NoValue
    /\ IF reqs[r].bytes = NoValue
       THEN reqs' = [reqs EXCEPT ![r].pc = "r_put",
                                 ![r].response = [status |-> 500, from |-> NoValue]]
       ELSE reqs' = [reqs EXCEPT ![r].pc = "r_put", ![r].bytes = NoValue,
                                 ![r].response = [status |-> 200, from |-> reqs[r].bytes]]
    /\ UNCHANGED <<jsonDir, cacheStore, nonServer>>

\* a wrapper that stores whatever the handler returned
CachedPut_storesErrors(r) ==
    /\ reqs[r].pc = "r_put"
    /\ cacheStore' = (reqs[r].key :> reqs[r].response) @@ cacheStore
    /\ reqs' = [reqs EXCEPT ![r].pc = "r_done"]
    /\ UNCHANGED <<jsonDir, tempFile, nonServer>>

\* cache.ts 30-34: store the response if it is ok, and return it
CachedPut(r) ==
    /\ reqs[r].pc = "r_put"
    /\ cacheStore' = IF ResponseOk(reqs[r].response)
                THEN (reqs[r].key :> reqs[r].response) @@ cacheStore
                ELSE cacheStore
    /\ reqs' = [reqs EXCEPT ![r].pc = "r_done"]
    /\ UNCHANGED <<jsonDir, tempFile, nonServer>>

\* the response has been sent; the next request may arrive
Respond(r) ==
    /\ reqs[r].pc = "r_done"
    /\ reqs' = [reqs EXCEPT ![r] = IdleRequest]
    /\ UNCHANGED <<jsonDir, cacheStore, tempFile, nonServer>>

NextServer ==
    \/ \E c \in DirContents : DirChange(c)
    \/ \E r \in 1..MaxRequests : CachedKey(r)
    \/ \E r \in 1..MaxRequests : CachedMatch(r)
    \/ \E r \in 1..MaxRequests, ok \in BOOLEAN : GenerateQuery(r, ok)
    \/ \E r \in 1..MaxRequests : GenerateCopy(r)
    \/ \E r \in 1..MaxRequests : GenerateRead(r)
    \/ \E r \in 1..MaxRequests : GenerateRemove(r)
    \/ \E r \in 1..MaxRequests : CachedPut(r)
    \/ \E r \in 1..MaxRequests : Respond(r)

SpecServer == Init /\ [][NextServer]_vars


(***************************************************************************)
(* From runScenario to the harness (SpecArgs): an adapter builds the       *)
(* argument vector with buildHarnessArgs, the harness parses it back.      *)
(***************************************************************************)
\* an integer-valued JavaScript number handed over as an option: mant * 10^exp
Decimal(m, e) == [mant |-> m, exp |-> e]

\* Number::toString switches to exponent notation from 10^21 on
ExponentFrom == 21

DigitChar == <<"0", "1", "2", "3", "4", "5", "6", "7", "8", "9">>

RECURSIVE DigitsOf(_)
DigitsOf(n) == IF n < 10 THEN <<DigitChar[n + 1]>>
               ELSE Append(DigitsOf(n \div 10), DigitChar[(n % 10) + 1])

Zeros(k) == [i \in 1..k |-> "0"]

\* the characters of String(x) for a non-negative integer x
NumberToString(x) ==
    LET ds == DigitsOf(x.mant)
        n == Len(ds) + x.exp
    IN IF x.mant = 0 THEN <<"0">>
       ELSE IF n <= ExponentFrom THEN ds \o Zeros(x.exp)
       ELSE <<Head(ds)>> \o (IF Len(ds) > 1 THEN <<".">> \o Tail(ds) ELSE <<>>)
                \o <<"e", "+">> \o DigitsOf(n - 1)

\* String(x): the string with those characters
String(x) == CHOOSE t \in DOMAIN Chars : Chars[t] = NumberToString(x)

\* harness.ts lines 69-77
buildHarnessArgs(opts) ==
    <<"--scenario", opts.scenario, "--repeat", String(opts.repeat),
      "--warmup", String(opts.warmup), "--depth", String(opts.depth), "--json">>

\* the ScenarioOpts an adapter can be handed: a name from SCENARIOS, integer
\* repeat > 0, warmup >= 0 and depth > 0
ScenarioOptsSet ==
    [scenario : {SCENARIOS[i] : i \in DOMAIN SCENARIOS},
     repeat : {Decimal(1, 0), Decimal(2, 0), Decimal(1, 1), Decimal(1, ExponentFrom)},
     warmup : {Decimal(0, 0), Decimal(1, 0), Decimal(3, 0)},
     depth : {Decimal(1, 0), Decimal(3, 0), Decimal(1, 2), Decimal(1, ExponentFrom)}]

\* invokeHarness lines 121-129: the command line of the harness subprocess
BuildArgs(opts) ==
    /\ bpc = "b_idle"
    /\ bopts' = opts
    /\ bargv' = buildHarnessArgs(opts)
    /\ bpc' = "b_built"
    /\ UNCHANGED <<started, nonBuild>>

\* entry.ts lines 56-72: the harness parses and validates, then looks the scenario up
HarnessStarts ==
    /\ bpc = "b_built"
    /\ LET a == parseHarnessArgs(bargv)
           error == validateHarnessArgs(a)
       IN started' = [args |-> a, error |-> error,
                      exit |-> IF error # NoValue THEN "invalid"
                               ELSE IF ~getScenario(a.scenario).found THEN "unknown"
                               ELSE "measure"]
    /\ bpc' = "b_started"
    /\ UNCHANGED <<bopts, bargv, nonBuild>>

\* the subprocess has exited; the adapter may start the next one
HarnessEnds ==
    /\ bpc = "b_started"
    /\ bpc' = "b_idle"
    /\ bopts' = <<>>
    /\ bargv' = <<>>
    /\ started' = <<>>
    /\ UNCHANGED nonBuild

NextArgs ==
    \/ \E opts \in ScenarioOptsSet : BuildArgs(opts)
    \/ HarnessStarts
    \/ HarnessEnds

SpecArgs == Init /\ [][NextArgs]_vars


(***************************************************************************)
(* The command line entry point (SpecDispatch): cli/main.ts and dispatch   *)
(***************************************************************************)
\* the registry of commands: name -> handler
commands ==
    [c \in {"run", "list-releases", "status", "help"} |->
        CASE c = "run" -> "runCommand"
          [] c = "list-releases" -> "listReleasesCommand"
          [] c = "status" -> "statusCommand"
          [] c = "help" -> "helpCommand"]

\* the keys of COMMAND_HELP
COMMAND_HELP == {"run", "list-releases", "status", "help"}

HelpFlags == {"--help", "-h"}

Includes(seq, x) == \E i \in DOMAIN seq : seq[i] = x

\* help.ts lines 93-108: the exit code of helpCommand(hargv)
helpCommand(hargv) ==
    IF hargv = <<>> \/ hargv[1] = "" THEN 0
    ELSE IF hargv[1] \in COMMAND_HELP \cup ObjectPrototypeKeys THEN 0
    ELSE 1

\* dispatch lines 124-146 up to the call of the handler: which handler, with
\* which arguments, and whether "Unknown command" was printed
dispatch(av) ==
    LET command == IF av = <<>> THEN "" ELSE av[1]
        rest == IF av = <<>> THEN <<>> ELSE Tail(av)
    IN IF command = "" \/ command = "help" \/ command \in HelpFlags
       THEN [handler |-> "helpCommand", args |-> rest, unknown |-> FALSE]
       ELSE IF Includes(rest, "--help") \/ Includes(rest, "-h")
       THEN [handler |-> "helpCommand", args |-> <<command>>, unknown |-> FALSE]
       ELSE IF command \in DOMAIN commands
       THEN [handler |-> commands[command], args |-> rest, unknown |-> FALSE]
       ELSE IF command \in ObjectPrototypeKeys
       THEN [handler |-> "inherited", args |-> rest, unknown |-> FALSE]
       ELSE [handler |-> "helpCommand", args |-> <<>>, unknown |-> TRUE]

\* the command lines tried
DispatchArgs ==
    {<<>>} \cup
    {<<c>> \o rest :
        c \in {"", "help", "--help", "-h", "run", "list-releases", "status",
               "frobnicate", "constructor"},
        rest \in {<<>>, <<"--help">>, <<"-h">>, <<"run">>, <<"frobnicate">>,
                  <<"--release", "4.0.0">>, <<"--release", "4.0.0", "-h">>}}

\* main.ts line 13 and dispatch: the handler is looked up and called
Dispatch(av) ==
    /\ dpc = "d_idle"
    /\ dargs' = av
    /\ dcall' = dispatch(av)
    /\ dpc' = "d_handler"
    /\ UNCHANGED <<dresult, nonDispatch>>

\* the handler ends and dispatch returns what it returned. helpCommand's code
\* is computed; the other commands return 0 or 1; an inherited property of
\* the registry is not a command handler: the call throws or yields no code
HandlerReturns(code, throws) ==
    /\ dpc = "d_handler"
    /\ dresult' =
          IF dcall.handler = "helpCommand" THEN Returned(helpCommand(dcall.args))
          ELSE IF dcall.handler = "inherited"
               THEN (IF throws THEN Threw("TypeError") ELSE Returned(NoCode))
               ELSE Returned(code)
    /\ dpc' = "d_returned"
    /\ UNCHANGED <<dargs, dcall, nonDispatch>>

\* main.ts line 14: exit(code)
MainExits ==
    /\ dpc = "d_returned"
    /\ dpc' = "d_exited"
    /\ UNCHANGED <<dargs, dcall, dresult, nonDispatch>>

NextDispatch ==
    \/ \E av \in DispatchArgs : Dispatch(av)
    \/ \E code \in {0, 1}, throws \in BOOLEAN : HandlerReturns(code, throws)
    \/ MainExits

SpecDispatch == Init /\ [][NextDispatch]_vars


(***************************************************************************)
(* Properties of the run command (Spec)                                    *)
(***************************************************************************)
FailedAt(i) == i \in DOMAIN results /\ ~results[i].ok

\* C1: with --fail-fast, once a runtime has failed no later runtime's adapter
\* is invoked, no later runtime gets a Result, and the command returns 1.
FailFastStopsAtFirstFailure ==
    config.failFast =>
        \A i \in DOMAIN results :
            FailedAt(i) =>
                /\ \A j \in adapterCalls : j <= i
                /\ Len(results) <= i
                /\ (pc = "done" /\ status = "returned" => exitCode = 1)

\* C2: without --fail-fast every runtime of the list is attempted, a failure
\* becomes a Result {ok: false, context: the runtime's id}, the records of
\* every successful runtime are written and the report names the failed ones.
BestEffortAttemptsEveryRuntime ==
    ~config.failFast =>
        /\ \A i \in DOMAIN results : FailedAt(i) => results[i].context = config.runtime[i]
        /\ (pc \in {"write", "report"} \/ summary.printed) =>
              /\ Len(results) = Len(config.runtime)
              /\ adapterCalls = DOMAIN config.runtime
        /\ summary.printed =>
              /\ \A i \in DOMAIN results :
                    results[i].ok =>
                        \A k \in DOMAIN results[i].value :
                            /\ results[i].value[k] \in Range(writes)
                            /\ ResultPath(results[i].value[k]) \in DOMAIN files
              /\ \A i \in DOMAIN results :
                    FailedAt(i) => config.runtime[i] \in Range(summary.failed)

\* C2 witness: [A, B], A failed, B succeeded, B's results written, A reported
FirstFailedSecondWritten ==
    /\ pc = "done"
    /\ ~config.failFast
    /\ Len(config.runtime) = 2
    /\ Len(results) = 2
    /\ FailedAt(1)
    /\ results[2].ok
    /\ summary.failed = <<config.runtime[1]>>
    /\ summary.written = Len(SCENARIOS)
    /\ \A k \in DOMAIN results[2].value : ResultPath(results[2].value[k]) \in DOMAIN files

\* C3: a run that reaches the report returns a non-zero exit code exactly
\* when some runtime's Result is a failure.
ExitCodeIffFailure ==
    summary.printed =>
        /\ status = "returned"
        /\ exitCode \in {0, 1}
        /\ (exitCode # 0) <=> (\E i \in DOMAIN results : FailedAt(i))

\* C3 witness: two runtimes, both succeeded, exit code 0
AllSucceededExitZero ==
    /\ pc = "done"
    /\ summary.printed
    /\ Len(results) = 2
    /\ \A i \in DOMAIN results : results[i].ok
    /\ exitCode = 0

\* C4: every record passed to writeResult, and every result file, satisfies
\* the result schema.
OnlyValidatedRecordsWritten ==
    /\ \A i \in DOMAIN writes : BenchmarkResultSchema(writes[i])
    /\ \A p \in DOMAIN files : BenchmarkResultSchema(files[p])

\* C4 witness: a run in which one runtime's record failed validation and
\* another runtime's records were written
InvalidRecordKeptFromDisk ==
    /\ pc = "done"
    /\ \E i \in DOMAIN results : FailedAt(i) /\ results[i].error = "validation"
    /\ writes # <<>>
    /\ DOMAIN files # {}

InstallFailureIsFatal ==
    (install.finished /\ install.code # 0) =>
        /\ ~ws.provided
        /\ adapterCalls = {}
        /\ writes = <<>>
        /\ DOMAIN files = {}
        /\ pc \in {"cleanup", "done"}
        /\ status = "raised"
        /\ exitCode # 0

\* C9 witness: a run that ended after npm install exited with code 1
RunEndedOnInstallFailure ==
    pc = "done" /\ install.ran /\ install.finished /\ install.code = 1

\* a command line the run command must reject
Malformed(a) ==
    \/ a.release = NoValue
    \/ Len(a.runtime) = 0
    \/ \E i \in DOMAIN a.runtime : a.runtime[i] \notin {"node", "deno", "bun"}
    \/ a.repeat <= 0
    \/ a.depth <= 0
    \/ a.warmup < 0

\* C10: a command line that fails parsing makes runCommand return 1 with no
\* workspace, no subprocess and no file.
ParseFailureRunsNothing ==
    (runs > 0 /\ Malformed(args)) =>
        /\ pc = "done"
        /\ status = "returned"
        /\ exitCode = 1
        /\ ~ws.entered
        /\ subprocs = 0
        /\ writes = <<>>
        /\ DOMAIN dirs = {}
        /\ DOMAIN files = {}

\* C10 witness: a command line whose only fault is --repeat 0 was rejected
RepeatZeroRejected ==
    /\ pc = "done"
    /\ args.repeat = 0
    /\ ReleaseOk(args) /\ RuntimeOk(args) /\ DepthOk(args) /\ WarmupOk(args)
    /\ exitCode = 1

NoDuplicates(rts) == \A i, j \in DOMAIN rts : rts[i] = rts[j] => i = j

\* C11: every request the run command accepts and starts executing has a
\* runtime list with no duplicate runtime id, repeat > 0, depth > 0 and
\* warmup >= 0; any other request is rejected during parsing.
AcceptedRequestsAreWellFormed ==
    /\ ws.entered =>
          /\ NoDuplicates(config.runtime)
          /\ config.repeat > 0 /\ config.depth > 0 /\ config.warmup >= 0
    /\ (runs > 0 /\ (~NoDuplicates(args.runtime) \/ args.repeat <= 0 \/ args.depth <= 0
                      \/ args.warmup < 0))
          => ~ws.entered /\ pc = "done" /\ exitCode = 1

RunningPcs == {"rt_detect", "rt_version", "sc_version", "sc_harness"}

PhaseNames == <<"Parsing", "WorkspaceProvisioning", "RunningRuntimes", "Writing",
                "Reporting", "Ended">>

PhaseOf(p) ==
    CASE p = "idle" -> "Parsing"
      [] p \in {"ws_enter", "ws_manifest", "ws_install", "ws_copy"} -> "WorkspaceProvisioning"
      [] p \in RunningPcs -> "RunningRuntimes"
      [] p = "write" -> "Writing"
      [] p = "report" -> "Reporting"
      [] OTHER -> "Ended"

PhaseIndex(p) == CHOOSE k \in DOMAIN PhaseNames : PhaseNames[k] = PhaseOf(p)

\* C14: within a run the phase only advances, to the next phase or to the end
\* of the run, and a result file is written only in the Writing phase, when
\* every requested runtime has been attempted and has its Result.
PhasesInOrder ==
    [][runs' = runs =>
          /\ PhaseIndex(pc') \in {PhaseIndex(pc), PhaseIndex(pc) + 1, Len(PhaseNames)}
          /\ files' # files =>
                /\ pc = "write"
                /\ adapterCalls = DOMAIN config.runtime
                /\ Len(results) = Len(config.runtime)
                /\ inflight = {}]_vars

\* C14 witness: a run of two runtimes went through every phase and wrote files
RunWentThroughEveryPhase ==
    /\ pc = "done"
    /\ Len(config.runtime) = 2
    /\ ws.provided
    /\ Len(results) = 2
    /\ writes # <<>>
    /\ summary.printed

\* C19: when the harness subprocess exits with a non-zero code, runScenario
\* raises the execution error whatever the subprocess printed, and the runtime
\* ends with a failure.
NonZeroExitRaises ==
    (harnessExit.seen /\ harnessExit.code # 0) =>
        /\ harnessExit.threw
        /\ harnessExit.error = "exec"
        /\ FailedAt(harnessExit.idx)
        /\ results[harnessExit.idx].error = "exec"

\* C19 witness: the harness printed a structured line and exited with code 1
StructuredLineButExitOne ==
    /\ harnessExit.seen
    /\ harnessExit.code = 1
    /\ harnessExit.stdout = <<ResultsLine({"stats", "samples"})>>
    /\ harnessExit.threw

RECURSIVE FirstLineWithBrace(_)
FirstLineWithBrace(lines) ==
    IF lines = <<>> THEN <<>>
    ELSE IF Head(lines).brace THEN <<Head(lines)>>
    ELSE FirstLineWithBrace(Tail(lines))

\* C20: on a zero exit, runScenario raises "no JSON" when no stdout line begins
\* with "{", the parse error when the first such line is not JSON and the
\* format error when it does not match the harness output schema, whatever
\* the later lines are; it returns a record only when that first line parses,
\* matches, and the record built from it validates.
FirstJsonLineDecides ==
    (harnessExit.seen /\ harnessExit.code = 0) =>
        LET first == FirstLineWithBrace(harnessExit.stdout) IN
        /\ first = <<>> => harnessExit.threw /\ harnessExit.error = "nojson"
        /\ (first # <<>> /\ ~first[1].json) =>
              harnessExit.threw /\ harnessExit.error = "badjson"
        /\ (first # <<>> /\ first[1].json
              /\ (~first[1].hasResults \/ \E i \in DOMAIN first[1].results :
                                              "samples" \notin first[1].results[i].has)) =>
              harnessExit.threw /\ harnessExit.error = "format"
        /\ harnessExit.threw => FailedAt(harnessExit.idx)
        /\ ~harnessExit.threw =>
              /\ first # <<>> /\ first[1].json /\ first[1].hasResults
              /\ \A i \in DOMAIN first[1].results :
                    {"samples", "stats"} \subseteq first[1].results[i].has

\* C20 witness: the first line beginning with "{" was not JSON, a well-formed
\* line followed it, and runScenario raised the parse error
MalformedFirstLineNotSkipped ==
    /\ harnessExit.seen
    /\ harnessExit.code = 0
    /\ harnessExit.stdout = <<BadJsonLine, ResultsLine({"samples"})>>
    /\ harnessExit.threw /\ harnessExit.error = "badjson"
    /\ FailedAt(harnessExit.idx)

(***************************************************************************)
(* Properties of the harness process (SpecHarness)                         *)
(***************************************************************************)
\* the number of stdout lines that begin with "{"
Braces(lines) == Len(SelectSeq(lines, LAMBDA l : l.brace))

ValidParams(a) ==
    /\ ~a.depth.nan /\ a.depth.val > 0
    /\ ~a.repeat.nan /\ a.repeat.val > 0
    /\ ~a.warmup.nan /\ a.warmup.val >= 0

\* every iteration of both loops of measure has completed
IterationsComplete ==
    /\ meas.loop = "measured"
    /\ meas.i = hargs.repeat.val
    /\ Len(log) = hargs.warmup.val + hargs.repeat.val

\* C15: started with a scenario name that is not in the registry, the harness
\* prints no line beginning with "{" and exits with code 1; with a registered
\* scenario, valid parameters and --json it has printed exactly one such line
\* and exits with code 0 once every iteration has completed.
HarnessExitContract ==
    /\ (hpc # "h_idle" /\ hargs.scenario \notin DOMAIN scenarios) =>
          /\ Braces(out) = 0
          /\ hexit # 0
          /\ hpc = "h_exited" => hexit = 1
    /\ (hpc = "h_exited" /\ hargs.scenario \in DOMAIN scenarios /\ ValidParams(hargs)
          /\ hargs.json /\ IterationsComplete) =>
          /\ Braces(out) = 1
          /\ hexit = 0
    /\ hpc # "h_exited" => out = <<>>

\* C15 witness: a registered scenario ran its warmup and measured iterations
\* with --json; one line beginning with "{" was printed and the exit code is 0
HarnessPrintedOneRecord ==
    /\ hpc = "h_exited"
    /\ hargs.scenario = "effection.recursion"
    /\ hargs.json
    /\ Len(log) = 3
    /\ out = <<JsonOutput("effection")>>
    /\ hexit = 0

\* the value that follows an option's name in an argument vector
FlagValue(av, flag) ==
    IF \E i \in 1..(Len(av) - 1) : av[i] = flag
    THEN av[(CHOOSE i \in 1..(Len(av) - 1) : av[i] = flag) + 1]
    ELSE NoValue

IsInteger(str) ==
    /\ str \in DOMAIN Chars
    /\ \A k \in DOMAIN Chars[str] :
          Chars[str][k] \in DOMAIN Digit \/ (k = 1 /\ Chars[str][k] = "-" /\ Len(Chars[str]) > 1)

InvalidHarnessArgv(av) ==
    \/ FlagValue(av, "--scenario") = NoValue
    \/ \E flag \in {"--repeat", "--depth"} :
          /\ FlagValue(av, flag) # NoValue
          /\ ~(IsInteger(FlagValue(av, flag)) /\ parseInt(FlagValue(av, flag)).val > 0)
    \/ /\ FlagValue(av, "--warmup") # NoValue
       /\ ~(IsInteger(FlagValue(av, "--warmup")) /\ parseInt(FlagValue(av, "--warmup")).val >= 0)

\* C16: with --scenario missing, or a --repeat or --depth value that is not a
\* positive integer, or a --warmup value that is not a non-negative integer,
\* the harness exits with code 1, the scenario is never called and no line
\* beginning with "{" is printed.
InvalidHarnessArgsRejected ==
    (hpc # "h_idle" /\ InvalidHarnessArgv(argv)) =>
        /\ log = <<>>
        /\ Braces(out) = 0
        /\ hexit # 0
        /\ hpc = "h_exited" => hexit = 1

\* C17: when an iteration of measure starts, no task spawned by the scenario
\* in an earlier iteration is alive.
ChildrenTornDownBetweenIterations ==
    /\ hpc = "h_loop" => live = {}
    /\ hpc = "h_scenario" => \A t \in live : t[1] = meas.scope

\* C17 witness: the scenario of the previous iteration returned with children
\* alive, they were halted, and the next iteration is running
NextIterationAfterLeakyScenario ==
    /\ hpc = "h_scenario"
    /\ meas.scope >= 2
    /\ meas.halted >= 1
    /\ live # {}

\* C18: measure calls the scenario `warmup` times and then `repeat` times,
\* always with the given depth, and passes to calculateStats the `repeat`
\* elapsed times of the measured calls, each of them non-negative.
MeasureRunsWarmupThenRepeat ==
    (meas.loop # "none" /\ ~hargs.warmup.nan /\ ~hargs.repeat.nan) =>
        /\ Len(log) <= hargs.warmup.val + hargs.repeat.val
        /\ \A k \in DOMAIN log :
              /\ log[k].depth = hargs.depth
              /\ log[k].kind = IF k <= hargs.warmup.val THEN "warmup" ELSE "measured"
        /\ meas.returned =>
              /\ Len(log) = hargs.warmup.val + hargs.repeat.val
              /\ Len(meas.statsOf) = hargs.repeat.val
              /\ meas.statsOf = meas.durations
              /\ \A i \in DOMAIN meas.statsOf : meas.statsOf[i] >= 0

\* C18 witness: one warmup call and two measured calls; the warmup call took
\* time and the samples passed to calculateStats are those of the measured calls
WarmupSampleDiscarded ==
    /\ meas.returned
    /\ hargs.warmup.val = 1
    /\ hargs.repeat.val = 2
    /\ Len(log) = 3
    /\ meas.statsOf = <<0, 1>>
    /\ perfNow = 2

(***************************************************************************)
(* Properties of successive invocations (SpecRepeat)                       *)
(***************************************************************************)
SameKey(r1, r2) ==
    /\ DateOf(r1.metadata.timestamp) = DateOf(r2.metadata.timestamp)
    /\ r1.metadata.releaseTag = r2.metadata.releaseTag
    /\ r1.metadata.runtime = r2.metadata.runtime
    /\ r1.metadata.runtimeMajorVersion = r2.metadata.runtimeMajorVersion
    /\ r1.metadata.scenario = r2.metadata.scenario

\* C5 as stated: no step changes the content of a result file written earlier.
WrittenFilesNeverChange ==
    [][\A p \in DOMAIN files : p \in DOMAIN files' /\ files'[p] = files[p]]_vars

\* C5 as amended: no result file is ever deleted, and a step changes the content
\* of a result file only by writing over it a record of the same date,
\* releaseTag, runtime, runtimeMajorVersion and scenario.
OnlySameKeyOverwrites ==
    [][\A p \in DOMAIN files :
          /\ p \in DOMAIN files'
          /\ files'[p] # files[p] =>
                /\ files'[p] \in Range(writes')
                /\ SameKey(files'[p], files[p])]_vars

\* C5 witness: the second run wrote results with the date, release, runtime
\* and scenario of files of the first run, and those files now hold its records
SecondRunReplacedAFile ==
    /\ pc = "done"
    /\ runs = 2
    /\ replaced # {}
    /\ \A p \in replaced : files[p].metadata.timestamp.ms = 2

\* C6: of two successive cached calls with the same versions, the second one
\* skips npm install when the first ran it successfully; a call with another
\* effection version has another cache key and directory, and a call that
\* finds no cache directory runs npm install.
CachedInstallRunsOnce ==
    (ws.entered /\ ws.useCache) =>
        /\ (prevWs.called /\ prevWs.useCache /\ prevWs.key = ws.key
              /\ prevWs.installRan /\ prevWs.installCode = 0)
             => ~ws.needsNpmInstall /\ ~install.ran
        /\ (prevWs.called /\ prevWs.useCache /\ prevWs.key[2] # config.release)
             => ws.key # prevWs.key /\ ws.dir # prevWs.dir
        /\ ~ws.dirExisted => ws.needsNpmInstall
        /\ (ws.needsNpmInstall /\ pc \in {"ws_install", "ws_copy", "rt_detect"}) => install.ran

\* C6 witness: the second of two cached runs with the same versions was
\* provided its workspace without running npm install
SecondCachedRunSkippedInstall ==
    /\ runs = 2
    /\ ws.provided
    /\ prevWs.called /\ prevWs.key = ws.key
    /\ prevWs.installRan /\ prevWs.installCode = 0
    /\ ~install.ran

\* C7: in cached mode the install is skipped, and the workspace provided, only
\* when node_modules is the product of an install that exited with code 0.
InstallSkippedOnlyAfterSuccess ==
    (ws.entered /\ ws.useCache /\ ws.dir \in DOMAIN dirs) =>
        /\ ~ws.needsNpmInstall => dirs[ws.dir].nodeModules = "complete"
        /\ ws.provided => dirs[ws.dir].nodeModules = "complete"


(***************************************************************************)
(* The harness's record as the adapters read it (SpecHarness)              *)
(***************************************************************************)
\* the scenario options an adapter passed for the arguments the harness got
OptsOfHarnessArgs(a) ==
    [releaseTag |-> "4.0.0", scenario |-> a.scenario, repeat |-> a.repeat.val,
     warmup |-> a.warmup.val, depth |-> a.depth.val]

\* C21: the record the harness prints with --json when it exits with code 0
\* is accepted by parseHarnessOutput, and the BenchmarkResult that
\* invokeHarness builds from it passes validateBenchmarkResult.
HarnessRecordAccepted ==
    (hpc = "h_exited" /\ hexit = 0 /\ hargs.json) =>
        /\ ~parseHarnessOutput(out).threw
        /\ \A rt \in {"node", "bun"} :
              ~invokeHarness(rt, OptsOfHarnessArgs(hargs), hexit, out, 1).threw

(***************************************************************************)
(* The harness subprocess as the adapters start it (Spec)                  *)
(***************************************************************************)
\* C22: every harness subprocess runs with the provisioned workspace
\* directory as its working directory, whatever the runtime id.
HarnessRunsInWorkspace ==
    harnessExit.seen => harnessExit.cwd = ws.dir

\* C23: for every runtime id, a record returned by runScenario carries the
\* adapter's id and the request's release, scenario and benchmark parameters,
\* and its results are those parsed from the stdout of the harness subprocess
\* that ran for it.
RunScenarioReturnsHarnessResults ==
    \A k \in DOMAIN cur :
        /\ cur[k].metadata.runtime = Runtime
        /\ cur[k].metadata.releaseTag = config.release
        /\ cur[k].metadata.scenario = SCENARIOS[k]
        /\ cur[k].metadata.benchmarkParams =
              [repeat |-> config.repeat, warmup |-> config.warmup, depth |-> config.depth]
        /\ k = Len(cur) =>
              /\ harnessExit.seen
              /\ harnessExit.idx = idx /\ harnessExit.sidx = k
              /\ cur[k].results = harnessExit.parsed

FilesCreatedMatchSummary ==
    summary.printed =>
        /\ Cardinality(DOMAIN files) = Len(successes(results)) * Len(SCENARIOS)
        /\ \A i, j \in DOMAIN writes :
              SameKey(writes[i], writes[j]) => ResultPath(writes[i]) = ResultPath(writes[j])
        /\ summary.written = Cardinality(DOMAIN files)

(***************************************************************************)
(* The scenarios of a runtime (Spec)                                       *)
(***************************************************************************)
\* the scenarios runScenario was invoked for, in call order, for runtime i
CallsOf(i) ==
    LET mine == SelectSeq(calls, LAMBDA c : c[1] = i)
    IN [k \in DOMAIN mine |-> mine[k][2]]

IsPrefix(s, t) == Len(s) <= Len(t) /\ \A k \in DOMAIN s : s[k] = t[k]

\* C26 as stated: for every runtime that was attempted and found available,
\* runScenario is invoked for every scenario of SCENARIOS, in list order.
EveryScenarioInvoked ==
    \A i \in DOMAIN results :
        (results[i].ok \/ results[i].error # "unavailable") => CallsOf(i) = SCENARIOS

\* C26: for every runtime that is attempted and found available, runScenario
\* is invoked for the scenarios of SCENARIOS one at a time and in list order,
\* up to and including the first call that raises: for every scenario when no
\* call raises, for none when version() raises before the loop.
ScenariosInvokedInOrder ==
    /\ \A i \in DOMAIN results :
          /\ IsPrefix(CallsOf(i), SCENARIOS)
          /\ results[i].ok => CallsOf(i) = SCENARIOS /\ Len(results[i].value) = Len(SCENARIOS)
          /\ (~results[i].ok /\ results[i].error = "unavailable") => CallsOf(i) = <<>>
    /\ pc = "sc_version" => CallsOf(idx) = [k \in 1..(sidx - 1) |-> SCENARIOS[k]]
                              /\ Len(cur) = sidx - 1
    /\ pc = "sc_harness" => CallsOf(idx) = [k \in 1..sidx |-> SCENARIOS[k]]
                              /\ Len(cur) = sidx - 1
    /\ Cardinality(inflight) <= 1

\* C26 witness: the first runtime's second runScenario call raised after two
\* calls, and the second runtime was then run through every scenario
RuntimeStoppedAtSecondScenario ==
    /\ Len(results) = 2
    /\ ~results[1].ok /\ CallsOf(1) = <<SCENARIOS[1], SCENARIOS[2]>>
    /\ results[2].ok /\ CallsOf(2) = SCENARIOS

(***************************************************************************)
(* Properties of the statistics functions (SpecStats)                      *)
(***************************************************************************)
\* C27: for every non-empty vector of non-negative samples, calculateStats
\* returns minTime <= p50 <= p95 <= p99 <= maxTime and
\* minTime <= avgTime <= maxTime.
StatsAreOrdered ==
    (spc # "s_idle" /\ samples # <<>>) =>
        /\ ~statsOut.threw
        /\ statsOut.value.minTime <= statsOut.value.p50
        /\ statsOut.value.p50 <= statsOut.value.p95
        /\ statsOut.value.p95 <= statsOut.value.p99
        /\ statsOut.value.p99 <= statsOut.value.maxTime
        /\ statsOut.value.minTime <= statsOut.value.avgTime
        /\ statsOut.value.avgTime <= statsOut.value.maxTime

\* the least k in 0..n with 100 * k >= p * n: the ceiling of p / 100 * n
CeilingRank(p, n) == CHOOSE k \in 0..n : 100 * k >= p * n /\ \A j \in 0..(k - 1) : 100 * j < p * n

StatsIgnoreOrder ==
    spc = "s_shuffled" =>
        /\ ~shuffledOut.threw
        /\ toStatsOnly(shuffledOut.value) = toStatsOnly(statsOut.value)

\* C30: calculateStats of an empty array raises an error and returns no
\* value.
EmptySamplesRaise ==
    (spc # "s_idle" /\ samples = <<>>) =>
        /\ statsOut.threw
        /\ statsOut.value = <<>>
        /\ statsOut.error = "Cannot calculate stats from empty array"

\* C30 witness: calculateStats was called with no sample and threw
CalledWithNoSample ==
    /\ spc = "s_called"
    /\ samples = <<>>
    /\ statsOut.threw

(***************************************************************************)
(* Properties of a result file (SpecJson)                                  *)
(***************************************************************************)
\* a === b on number-typed values: NaN equals nothing, -0 equals 0
StrictEquals(a, b) ==
    /\ a.kind = b.kind
    /\ a.kind # "nan"
    /\ a.kind = "finite" => a.val = b.val /\ (a.val = 0 \/ a.neg = b.neg)

\* every field of a equals the same field of b
FieldsEqual(a, b) ==
    /\ StrictEquals(a.schemaVersion, b.schemaVersion)
    /\ a.metadata.releaseTag = b.metadata.releaseTag
    /\ a.metadata.runtime = b.metadata.runtime
    /\ StrictEquals(a.metadata.runtimeMajorVersion, b.metadata.runtimeMajorVersion)
    /\ a.metadata.timestamp = b.metadata.timestamp
    /\ a.metadata.runner = b.metadata.runner
    /\ a.metadata.scenario = b.metadata.scenario
    /\ \A f \in {"repeat", "warmup", "depth"} :
          StrictEquals(a.metadata.benchmarkParams[f], b.metadata.benchmarkParams[f])
    /\ Len(a.results) = Len(b.results)
    /\ \A i \in DOMAIN a.results :
          /\ a.results[i].name = b.results[i].name
          /\ \A f \in StatFields : StrictEquals(a.results[i].stats[f], b.results[i].stats[f])
    /\ a.extra = b.extra

RunEventuallyReturnsCode ==
    (runs = 1) ~> (exitCode # NoCode)

\* C32: if every subprocess started during a run exits, runCommand
\* eventually ends, by returning an exit code or, when the workspace cannot
\* be provisioned, by raising; no timeout is enforced: while a harness
\* subprocess has not exited the run stays where it is, has written no result
\* file, and moves on only by that subprocess's exit.
RunEventuallyEnds ==
    /\ (runs = 1) ~> (pc = "done" /\ status \in {"returned", "raised"})
    /\ [](pc = "done" => (status = "returned" <=> exitCode # NoCode))
    /\ [](pc = "sc_harness" => writes = <<>> /\ files = <<>> /\ status = "none"
                                  /\ inflight = {<<idx, sidx>>})
    /\ [][pc = "sc_harness" =>
            /\ harnessExit'.seen
            /\ harnessExit'.idx = idx /\ harnessExit'.sidx = sidx
            /\ inflight' = {}]_vars

\* C32 witness: npm install exited with a non-zero code and the run has ended
\* by raising, without an exit code
RunEndedByRaising ==
    /\ pc = "done"
    /\ install.finished /\ install.code = 1
    /\ status = "raised"
    /\ exitCode = NoCode

(***************************************************************************)
(* Properties of concurrent useWorkspace calls (SpecCalls)                 *)
(***************************************************************************)
\* C33: nothing serialises two cached useWorkspace calls for the same version
\* set: what a call decides at its check is the absence of node_modules and
\* nothing else, whatever installs are running in the directory, so two
\* calls can both find the marker absent and both run npm install in the
\* same cache directory at the same time
InstallCheckIgnoresOtherCalls ==
    [][\A p \in 1..MaxCalls :
          (wcalls[p].pc = "c_check" /\ wcalls'[p].pc # "c_check")
              => /\ wcalls'[p].pc = "c_manifest"
                 /\ wcalls'[p].needsNpmInstall
                        = (cacheDirs[wcalls[p].dir].nodeModules = "absent")]_vars

TwoInstallsInOneCacheDirectory ==
    \E p, q \in 1..MaxCalls :
        /\ p # q
        /\ wcalls[p].useCache /\ wcalls[q].useCache
        /\ wcalls[p].key = wcalls[q].key
        /\ wcalls[p].dir = wcalls[q].dir
        /\ wcalls[p].needsNpmInstall /\ wcalls[q].needsNpmInstall
        /\ {p, q} \subseteq Installing(wcalls, wcalls[p].dir)

(***************************************************************************)
(* Properties of the Parquet response cache (SpecServer)                   *)
(***************************************************************************)
\* C34: under any interleaving of requests and changes to data/json, a
\* response served from the cache was generated from directory contents
\* whose hash equals the hash of the contents at the time of the request
CacheHitServesRequestedContents ==
    \A r \in 1..MaxRequests :
        (reqs[r].pc = "r_done" /\ reqs[r].hit)
            => hashElement(reqs[r].response.from) = hashElement(reqs[r].atRequest)

\* C36: cached() invokes the wrapped handler only when the cache holds no
\* entry for the computed key, and stores a response only when its status is
\* ok: an error response is never stored, so the next request with the same
\* key finds no entry left by it and invokes the handler again
HandlerOnMissStoreOnOk ==
    /\ [](\A k \in DOMAIN cacheStore : ResponseOk(cacheStore[k]))
    /\ [][\A r \in 1..MaxRequests :
             /\ (reqs'[r].invoked /\ ~reqs[r].invoked)
                    => (reqs[r].pc = "r_match" /\ reqs[r].key \notin DOMAIN cacheStore)
             /\ (reqs[r].pc = "r_match" /\ reqs'[r].pc # "r_match"
                     /\ reqs[r].key \notin DOMAIN cacheStore)
                    => (reqs'[r].invoked /\ ~reqs'[r].hit)
             /\ (reqs[r].pc = "r_put" /\ reqs'[r].pc # "r_put")
                    => cacheStore' = IF reqs[r].response.status = 200
                                     THEN (reqs[r].key :> reqs[r].response) @@ cacheStore
                                     ELSE cacheStore]_vars
    /\ [][cacheStore' # cacheStore
             => \E r \in 1..MaxRequests : reqs[r].pc = "r_put" /\ reqs'[r].pc = "r_done"]_vars

HandlerInvokedAgainAfterError ==
    \E r, q \in 1..MaxRequests :
        /\ reqs[q].pc = "r_done" /\ reqs[q].invoked /\ reqs[q].response.status = 500
        /\ reqs[r].pc = "r_query" /\ reqs[r].invoked /\ reqs[r].key = reqs[q].key
        /\ reqs[r].afterError
        /\ reqs[r].key \notin DOMAIN cacheStore

(***************************************************************************)
(* Results written per runtime (Spec)                                      *)
(***************************************************************************)
\* the writeResult calls of this invocation for runtime id rt
WritesOfRuntime(rt) == {j \in DOMAIN writes : writes[j].metadata.runtime = rt}

\* the entries of the runtime list that name rt and ended as a success
SucceededEntries(rt) == {i \in DOMAIN results : config.runtime[i] = rt /\ results[i].ok}

\* C35: for every runtime of a run the number of results written is 0 or the
\* number of scenarios: a success carries one record per scenario, a failure
\* none, and only the records of successes are written; so a runtime that
\* fails at a later scenario has none of its earlier results written
EachRuntimeWritesAllOrNothing ==
    /\ \A i \in DOMAIN results : results[i].ok => Len(results[i].value) = Len(SCENARIOS)
    /\ (pc = "report" \/ summary.printed) =>
          /\ writes = Flatten(successes(results))
          /\ \A i \in DOMAIN results :
                Cardinality(WritesOfRuntime(config.runtime[i]))
                    = Len(SCENARIOS) * Cardinality(SucceededEntries(config.runtime[i]))
          /\ \A j \in DOMAIN writes : ResultPath(writes[j]) \in DOMAIN files

EarlierResultsOfFailedRuntimeUnwritten ==
    /\ summary.printed
    /\ \E i \in DOMAIN results :
          /\ ~results[i].ok
          /\ Len(CallsOf(i)) >= 2
          /\ WritesOfRuntime(config.runtime[i]) = {}
          /\ \A path \in DOMAIN files : path[3] # config.runtime[i]

(***************************************************************************)
(* Properties of the harness command line (SpecArgs)                       *)
(***************************************************************************)
\* C37: every name of SCENARIOS that an adapter passes to a harness is a key
\* of the scenario registry, so a harness started by the run command never
\* takes the unknown-scenario exit
BuiltScenarioIsRegistered ==
    bpc = "b_started" =>
        /\ bopts.scenario \in DOMAIN scenarios
        /\ started.args.scenario = bopts.scenario
        /\ started.exit # "unknown"

LastScenarioFound ==
    /\ bpc = "b_started"
    /\ bopts.scenario = SCENARIOS[Len(SCENARIOS)]
    /\ started.exit = "measure"

\* the number the harness parsed is the number the adapter was handed
SameNumber(x, n) == ~n.nan /\ x.exp < ExponentFrom /\ NumberToString(Decimal(n.val, 0)) = NumberToString(x)

\* C38: for every ScenarioOpts with a name from SCENARIOS, integer repeat > 0,
\* depth > 0 and warmup >= 0 (0 included), parseHarnessArgs(buildHarnessArgs(opts))
\* has the same scenario, repeat, warmup and depth with json = true, and
\* validateHarnessArgs accepts it
BuildParseRoundTrip ==
    bpc = "b_started" =>
        /\ started.args.scenario = bopts.scenario
        /\ SameNumber(bopts.repeat, started.args.repeat)
        /\ SameNumber(bopts.warmup, started.args.warmup)
        /\ SameNumber(bopts.depth, started.args.depth)
        /\ started.args.json
        /\ started.error = NoValue

(***************************************************************************)
(* Properties of dispatch (SpecDispatch)                                   *)
(***************************************************************************)
\* C39: dispatch returns a non-zero exit code whenever its first argument is
\* neither a known command name (run, list-releases, status, help) nor a help
\* flag, and runs no command handler other than help in that case
UnknownCommandReturnsNonZero ==
    (/\ dpc \in {"d_returned", "d_exited"}
     /\ dargs # <<>>
     /\ dargs[1] \notin {"run", "list-releases", "status", "help"} \cup HelpFlags)
        => /\ dcall.handler = "helpCommand"
           /\ ~dresult.threw
           /\ dresult.value \notin {0, NoCode}

====
